---- MODULE Spec2Model ----
(***************************************************************************)
(* The resource manager of the robot runtime (package robotimpl): the      *)
(* dependency graph of resources, the reconfigure pipeline                 *)
(* (markRemoved, updateResources, completeConfig, removeMarkedAndClose),   *)
(* remote reconciliation (updateRemoteResourceNames) and the configuration *)
(* mutex.  The Graph and GraphNode types (package resource) and the        *)
(* callers in localRobot are modelled from the specification.              *)
(***************************************************************************)
EXTENDS Naturals, Integers, Sequences, FiniteSets, TLC

VARIABLES
    nodes,      \* resource.Graph nodes: Name -> GraphNode, for the names present
    edges,      \* resource.Graph edges: <<child, parent>>, child depends on parent
    configLock, \* resourceManager.configLock: the thread holding it, or NoThread
    pc,         \* position of each thread
    local,      \* locals of each thread (diff in hand, sorted names of a pass, ...)
    remoteSet,  \* the short names the remote robot currently reports (ResourceNames)
    remoteUp,   \* whether a dial of the remote succeeds
    triggerConfig, \* number of wakes buffered on the robot's trigger channel
    notifier,   \* whether the remote client holds a parent notifier
    notifying,  \* number of parent-notifier invocations blocked on the channel send
    config,     \* the robot config in force (localRobot), which diffs start from
    budget,     \* what is left of the bounds of the model
    trace,      \* events (driver calls, flag writes) of the last action, in order
    hist,       \* history of the current pass / removal, used to state the claims
    opts,       \* resourceManager.opts (resourceManagerOptions), fixed at construction
    procs,      \* resourceManager.processManager: the IDs of the processes it holds
    result,     \* what the last call that returns something returned
    input,      \* the arguments of the operation applied, where one is checked alone
    lei         \* the rimage.LazyEncodedImage the callers share, and its decodes

vars == <<nodes, edges, configLock, pc, local, remoteSet, remoteUp,
          triggerConfig, notifier, notifying, config, budget, trace, hist,
          opts, procs, result, input, lei>>

\* the variables the reconfigure pipeline of the graph leaves alone
auxVars == <<opts, procs, result, input, lei>>

----------------------------------------------------------------------------
(* Bounds of the model *)

MaxReconfigures == 2
MaxRemoteChanges == 2

\* passes of the reconfigure task counted after a notification
MaxPassCount == 3

----------------------------------------------------------------------------
(* Resource names and APIs *)

ComponentAPI == [ns |-> "rdk", type |-> "component", subtype |-> "arm"]
RemoteAPI == [ns |-> "rdk", type |-> "remote", subtype |-> ""]
\* shell.API, the API of the shell service
ShellAPI == [ns |-> "rdk", type |-> "service", subtype |-> "shell"]
\* the API of web.InternalServiceName
InternalWebAPI == [ns |-> "rdk-internal", type |-> "service", subtype |-> "web"]
\* the key under which a config lists a process (its ID), not an API of a resource
ProcessKey == [ns |-> "", type |-> "process", subtype |-> ""]

NewName(api, name) == [api |-> api, remote |-> <<>>, name |-> name]

PrependRemote(n, remoteName) == [n EXCEPT !.remote = <<remoteName>> \o @]

ContainsRemoteNames(n) == Len(n.remote) > 0

IsComponent(api) == api.type = "component"
IsService(api) == api.type = "service"

fromRemoteNameToRemoteNodeName(name) == NewName(RemoteAPI, name)

NA == NewName(ComponentAPI, "A")
NB == NewName(ComponentAPI, "B")
NC == NewName(ComponentAPI, "C")
RX == NewName(ComponentAPI, "X")
R1 == fromRemoteNameToRemoteNodeName("r1")
R1X == PrependRemote(RX, R1.name)
\* a second remote, and the same short name under it
R2 == fromRemoteNameToRemoteNodeName("r2")
R2X == PrependRemote(RX, "r2")
\* a shell service, as a config or a remote names it
SH == NewName(ShellAPI, "sh")
R1SH == PrependRemote(SH, R1.name)
\* web.InternalServiceName
WEB == NewName(InternalWebAPI, "builtin")
\* a process of a config
P1 == NewName(ProcessKey, "p1")

IsProcess(n) == n.api = ProcessKey

LocalNames == {NA, NB, NC}

\* every name of the universe, in lexicographic order of its string form
NameOrder == <<WEB, NA, NB, NC, RX, R1X, R2X, R1, R2, R1SH, SH, P1>>
AllNames == {NameOrder[i] : i \in 1..Len(NameOrder)}
Rank(n) == CHOOSE i \in 1..Len(NameOrder) : NameOrder[i] = n

\* a set of names as the sequence of its members in lexicographic order
RECURSIVE SortNames(_)
SortNames(S) ==
    IF S = {} THEN <<>>
    ELSE LET m == CHOOSE x \in S : \A y \in S : Rank(x) <= Rank(y)
         IN <<m>> \o SortNames(S \ {m})

SeqToSet(s) == {s[i] : i \in 1..Len(s)}

Reverse(s) == [i \in 1..Len(s) |-> s[Len(s) + 1 - i]]

----------------------------------------------------------------------------
(* Models and configs *)

unknownModel == "unknown"
builtinModel == "builtin"
Models == {"m1", "m2"}

\* a symbolic dependency: the remote path it gives (possibly none) and a short name
Dep(remote, name) == [remote |-> remote, name |-> name]

NoRes == "none"
NoErr == "none"
NoThread == "none"

----------------------------------------------------------------------------
(* GraphNode *)

NewUnconfiguredGraphNode(conf, deps) ==
    [config |-> conf, res |-> NoRes, model |-> "none", lastErr |-> NoErr,
     needsReconfigure |-> TRUE, marked |-> FALSE, unresolved |-> deps]

NewConfiguredGraphNode(conf, res, model) ==
    [config |-> conf, res |-> res, model |-> model, lastErr |-> NoErr,
     needsReconfigure |-> FALSE, marked |-> FALSE, unresolved |-> {}]

IsUninitialized(node) == node.res = NoRes

HasResource(node) == node.res # NoRes

NeedsReconfigure(node) == node.needsReconfigure

\* GraphNode.Resource: the handle, unless the last build failed or there is none
ResourceErr(node) ==
    IF node.lastErr # NoErr THEN node.lastErr
    ELSE IF node.res = NoRes THEN "not initialized"
    ELSE NoErr

SetNewConfig(node, conf, deps) ==
    [node EXCEPT !.config = conf, !.unresolved = deps,
                 !.needsReconfigure = TRUE, !.marked = FALSE]

SetNeedsUpdate(node) == [node EXCEPT !.needsReconfigure = TRUE]

SetLastError(node, err) == [node EXCEPT !.lastErr = err]

SwapResource(node, res, model) ==
    [node EXCEPT !.res = res, !.model = model, !.lastErr = NoErr,
                 !.needsReconfigure = FALSE]

\* GraphNode.Close: drops the handle; the node is uninitialized afterwards
CloseNode(node) == [node EXCEPT !.res = NoRes]

----------------------------------------------------------------------------
(* Graph: a graph value is [nodes |-> Name -> GraphNode, edges |-> set of   *)
(* <<child, parent>>]                                                       *)

Names(g) == DOMAIN g.nodes

HasNode(g, name) == name \in DOMAIN g.nodes

GetAllParentsOf(g, name) == {e[2] : e \in {x \in g.edges : x[1] = name}}

GetAllChildrenOf(g, name) == {e[1] : e \in {x \in g.edges : x[2] = name}}

\* the names reachable from S along the edges E (child to parent)
RECURSIVE ReachUp(_, _)
ReachUp(E, S) ==
    LET next == S \cup {e[2] : e \in {x \in E : x[1] \in S}}
    IN IF next = S THEN S ELSE ReachUp(E, next)

\* the names that reach S along the edges E: S and its transitive dependents
RECURSIVE ReachDown(_, _)
ReachDown(E, S) ==
    LET next == S \cup {e[1] : e \in {x \in E : x[2] \in S}}
    IN IF next = S THEN S ELSE ReachDown(E, next)

HasCycle(E) == \E e \in E : e[1] \in ReachUp(E, {e[2]})

\* Graph.AddNode: fails if the name is already present
AddNodeOk(g, name) == ~HasNode(g, name)
AddNode(g, name, node) ==
    IF AddNodeOk(g, name)
    THEN [g EXCEPT !.nodes = (name :> node) @@ @]
    ELSE g

\* an AddChild that refuses only the edge of a node to itself
AddChildOkSelfOnly(g, child, parent) == child # parent

\* Graph.AddChild: the edge child -> parent; fails if it would close a cycle
AddChildOk(g, child, parent) ==
    /\ child # parent
    /\ child \notin ReachUp(g.edges, {parent})

AddChild(g, child, parent) ==
    IF AddChildOk(g, child, parent)
    THEN [g EXCEPT !.edges = @ \cup {<<child, parent>>}]
    ELSE g

RemoveChild(g, child, parent) == [g EXCEPT !.edges = @ \ {<<child, parent>>}]

\* Graph.SubGraphFrom: the root and every transitive dependent of it
SubGraphFrom(g, root) == ReachDown(g.edges, {root}) \cap Names(g)

\* Graph.TopologicalSort over the names S: Kahn's algorithm, a name comes
\* before the names it depends on, ties broken by lexicographic name
RECURSIVE TopologicalSort(_, _)
TopologicalSort(E, S) ==
    IF S = {} THEN <<>>
    ELSE LET free == {n \in S : ~\E c \in S : c # n /\ <<c, n>> \in E}
             from == IF free = {} THEN S ELSE free
             m == CHOOSE x \in from : \A y \in from : Rank(x) <= Rank(y)
         IN <<m>> \o TopologicalSort(E, S \ {m})

ReverseTopologicalSort(E, S) == Reverse(TopologicalSort(E, S))

FindNodesByAPI(g, api) == SortNames({n \in Names(g) : n.api = api})

\* Graph.FindNodesByShortNameAndAPI: the partial-match resolver
FindNodesByShortNameAndAPI(g, name) ==
    {n \in Names(g) : n.api = name.api /\ n.name = name.name
                       /\ ContainsRemoteNames(n)}

\* Graph.MarkForRemoval of the names of a subgraph
MarkForRemoval(g, sub) ==
    [g EXCEPT !.nodes = [n \in DOMAIN @ |->
        IF n \in sub THEN [@[n] EXCEPT !.marked = TRUE] ELSE @[n]]]

MarkedNames(g) == {n \in Names(g) : g.nodes[n].marked}

\* Graph.RemoveMarked: the marked names that hold a handle, dependents first
RemoveMarkedHandles(g) ==
    LET sorted == TopologicalSort(g.edges, MarkedNames(g))
    IN SelectSeq(sorted, LAMBDA n : g.nodes[n].res # NoRes)

RemoveMarked(g) ==
    LET gone == MarkedNames(g)
    IN [g EXCEPT !.nodes = [n \in Names(g) \ gone |-> g.nodes[n]],
                 !.edges = {e \in @ : e[1] \notin gone /\ e[2] \notin gone}]

\* the nodes a symbolic dependency names: the exact name, else a match by
\* short name across the remotes
DepCandidates(g, d) ==
    LET exact == {n \in Names(g) : n.name = d.name /\ n.remote = d.remote
                                    /\ n.api # RemoteAPI}
        partial == {n \in Names(g) : n.name = d.name /\ n.api # RemoteAPI}
    IN IF exact # {} \/ d.remote # <<>> THEN exact ELSE partial

DepResolves(g, d) == Cardinality(DepCandidates(g, d)) = 1

DepTarget(g, d) == CHOOSE n \in DepCandidates(g, d) : TRUE

RECURSIVE AddChildren(_, _, _)
AddChildren(g, child, parents) ==
    IF parents = <<>> THEN [ok |-> TRUE, g |-> g]
    ELSE IF ~AddChildOk(g, child, Head(parents)) THEN [ok |-> FALSE, g |-> g]
    ELSE AddChildren(AddChild(g, child, Head(parents)), child, Tail(parents))

\* Graph.ResolveDependencies for one node: its symbolic dependencies become
\* edges; a dependency that names no node, or an edge that would close a
\* cycle, leaves the node unresolved
ResolveNode(g, name) ==
    LET node == g.nodes[name]
        deps == node.unresolved
    IN IF deps = {} \/ \E d \in deps : ~DepResolves(g, d) THEN g
       ELSE LET r == AddChildren(g, name, SortNames({DepTarget(g, d) : d \in deps}))
            IN IF r.ok
               THEN [r.g EXCEPT !.nodes[name].unresolved = {}]
               ELSE r.g

RECURSIVE ResolveAll(_, _)
ResolveAll(g, names) ==
    IF names = <<>> THEN g
    ELSE ResolveAll(ResolveNode(g, Head(names)), Tail(names))

ResolveDependencies(g) == ResolveAll(g, SortNames(Names(g)))

----------------------------------------------------------------------------
(* The resource manager.  Its operations are written over a working value   *)
(* m = [nodes, edges, tr, changed]: the graph, the events so far (driver    *)
(* calls and flag writes, in program order) and a result flag.              *)

Event(m, op, name) == [m EXCEPT !.tr = Append(@, [op |-> op, name |-> name])]

Work(ns, es) == [nodes |-> ns, edges |-> es, tr |-> <<>>, changed |-> FALSE]

\* resourceManager.remoteResourceNames
remoteResourceNames(m, remoteName) ==
    {c \in GetAllChildrenOf(m, remoteName) : ContainsRemoteNames(c)}

RECURSIVE MarkNamesForUpdate(_, _, _)
MarkNamesForUpdate(m, rName, sorted) ==
    IF sorted = <<>> THEN m
    ELSE LET name == Head(sorted)
             m1 == IF name = rName \/ ContainsRemoteNames(name) \/ ~HasNode(m, name)
                   THEN m
                   ELSE Event([m EXCEPT !.nodes[name] = SetNeedsUpdate(@)],
                              "SetNeedsUpdate", name)
         IN MarkNamesForUpdate(m1, rName, Tail(sorted))

\* resourceManager.markChildrenForUpdate; an absent root is SubGraphFrom's error
markChildrenForUpdateOk(m, rName) == HasNode(m, rName)

\* a markChildrenForUpdate whose filter on remote names is inverted
RECURSIVE MarkRemoteNamesForUpdate(_, _, _)
MarkRemoteNamesForUpdate(m, rName, sorted) ==
    IF sorted = <<>> THEN m
    ELSE LET name == Head(sorted)
             m1 == IF name = rName \/ ~ContainsRemoteNames(name) \/ ~HasNode(m, name)
                   THEN m
                   ELSE Event([m EXCEPT !.nodes[name] = SetNeedsUpdate(@)],
                              "SetNeedsUpdate", name)
         IN MarkRemoteNamesForUpdate(m1, rName, Tail(sorted))

markChildrenForUpdateRemoteOnly(m, rName) ==
    IF ~markChildrenForUpdateOk(m, rName) THEN m
    ELSE MarkRemoteNamesForUpdate(m, rName,
                                  TopologicalSort(m.edges, SubGraphFrom(m, rName)))

\* a markChildrenForUpdate that stops at the direct dependents
markChildrenForUpdateDirect(m, rName) ==
    IF ~markChildrenForUpdateOk(m, rName) THEN m
    ELSE MarkNamesForUpdate(m, rName,
             TopologicalSort(m.edges, GetAllChildrenOf(m, rName) \cup {rName}))

markChildrenForUpdate(m, rName) ==
    IF ~markChildrenForUpdateOk(m, rName) THEN m
    ELSE MarkNamesForUpdate(m, rName, TopologicalSort(m.edges, SubGraphFrom(m, rName)))

\* resourceManager.closeResource on the handle a node holds: the driver's Close
closeResource(m, name) ==
    Event([m EXCEPT !.nodes[name].res = "closed"], "Close", name)

\* GraphNode.Close as the manager calls it: the driver's Close, if there is a
\* handle, and the node left without one
closeNode(m, name) ==
    IF m.nodes[name].res = NoRes THEN m
    ELSE Event([m EXCEPT !.nodes[name] = CloseNode(@)], "Close", name)

\* a first loop that ends at the first name it gets no client for
RECURSIVE GraftRemoteNamesUntilMissing(_, _, _, _, _)
GraftRemoteNamesUntilMissing(m, remoteName, newResources, fetch, old) ==
    IF newResources = <<>> THEN m
    ELSE LET resName == PrependRemote(Head(newResources), remoteName.name)
             ok == HasNode(m, resName)
             m1 == IF Head(newResources) \notin fetch THEN m
                   ELSE IF resName \in old /\ ok /\ ~IsUninitialized(m.nodes[resName])
                   THEN m
                   ELSE LET m2 == IF ok
                                  THEN [m EXCEPT !.nodes[resName] =
                                            SwapResource(@, "open", unknownModel)]
                                  ELSE AddNode(m, resName,
                                            NewConfiguredGraphNode([model |-> unknownModel,
                                                deps |-> {}, valid |-> TRUE],
                                                "open", unknownModel))
                        IN IF AddChildOk(m2, resName, remoteName)
                           THEN [AddChild(m2, resName, remoteName) EXCEPT !.changed = TRUE]
                           ELSE m2
         IN IF Head(newResources) \notin fetch THEN m
            ELSE GraftRemoteNamesUntilMissing(m1, remoteName, Tail(newResources), fetch,
                                              old)

\* updateRemoteResourceNames, first loop: the names the remote reports.
\* fetch: the reported names for which rr.ResourceByName gives a client
RECURSIVE GraftRemoteNames(_, _, _, _, _)
GraftRemoteNames(m, remoteName, newResources, fetch, old) ==
    IF newResources = <<>> THEN m
    ELSE LET resName == PrependRemote(Head(newResources), remoteName.name)
             ok == HasNode(m, resName)
             m1 == IF Head(newResources) \notin fetch THEN m
                   ELSE IF resName \in old /\ ok /\ ~IsUninitialized(m.nodes[resName])
                   THEN m
                   ELSE LET m2 == IF ok
                                  THEN [m EXCEPT !.nodes[resName] =
                                            SwapResource(@, "open", unknownModel)]
                                  ELSE AddNode(m, resName,
                                            NewConfiguredGraphNode([model |-> unknownModel,
                                                deps |-> {}, valid |-> TRUE],
                                                "open", unknownModel))
                        IN IF AddChildOk(m2, resName, remoteName)
                           THEN [AddChild(m2, resName, remoteName) EXCEPT !.changed = TRUE]
                           ELSE m2
         IN GraftRemoteNames(m1, remoteName, Tail(newResources), fetch, old)

\* updateRemoteResourceNames, second loop: the old names no longer active
RECURSIVE DropRemoteNames(_, _)
DropRemoteNames(m, inactive) ==
    IF inactive = <<>> THEN m
    ELSE LET resName == Head(inactive)
             m1 == IF ~markChildrenForUpdateOk(m, resName) THEN m
                   ELSE [closeNode(markChildrenForUpdate(m, resName), resName)
                            EXCEPT !.changed = TRUE]
         IN DropRemoteNames(m1, Tail(inactive))

\* resourceManager.updateRemoteResourceNames
updateRemoteResourceNames(m, remoteName, reported, fetch) ==
    LET old == remoteResourceNames(m, remoteName)
        active == {PrependRemote(r, remoteName.name) : r \in reported \cap fetch} \cap old
        m1 == GraftRemoteNames([m EXCEPT !.changed = FALSE], remoteName,
                               SortNames(reported), fetch, old)
    IN DropRemoteNames(m1, SortNames(old \ active))

\* resourceManager.addRemote for a node that exists (gNode # nil)
addRemote(m, rName, reported, fetch) ==
    updateRemoteResourceNames(
        [m EXCEPT !.nodes[rName] = SwapResource(@, "open", builtinModel)],
        rName, reported, fetch)

\* a markResourceForUpdate that resets the edges at both ends of the node
markResourceForUpdateAllEdges(m, name, conf) ==
    IF HasNode(m, name)
    THEN [m EXCEPT !.nodes[name] = SetNewConfig(@, conf, conf.deps),
                   !.edges = {e \in @ : e[1] # name /\ e[2] # name}]
    ELSE AddNode(m, name, NewUnconfiguredGraphNode(conf, conf.deps))

\* resourceManager.markResourceForUpdate
markResourceForUpdate(m, name, conf) ==
    IF HasNode(m, name)
    THEN [m EXCEPT !.nodes[name] = SetNewConfig(@, conf, conf.deps),
                   !.edges = {e \in @ : e[1] # name}]
    ELSE AddNode(m, name, NewUnconfiguredGraphNode(conf, conf.deps))

\* resourceManager.markRemoved, one entry of the removed config
RECURSIVE MarkRemovedEntries(_, _)
MarkRemovedEntries(m, entries) ==
    IF entries = <<>> THEN m
    ELSE LET name == Head(entries)
             m1 == IF ~HasNode(m, name) THEN m
                   ELSE MarkForRemoval(m, SubGraphFrom(m, name))
         IN MarkRemovedEntries(m1, Tail(entries))

\* the untrusted-environment test on a service (lines 783, 805 and 961) without
\* the test of the environment
shellDisabledNever(o, name) == FALSE

\* the untrusted-environment test on a service (lines 783, 805 and 961)
shellDisabled(o, name) == o.untrustedEnv /\ name.api = ShellAPI

\* the untrusted-environment test on processes without the test of the environment
processesDisabledNever(o) == FALSE

\* the untrusted-environment test on processes (lines 821, 833 and 916)
processesDisabled(o) == o.untrustedEnv

\* pexec: a process manager; the no-op manager holds nothing and does nothing
newProcessManager(o) == [noop |-> o.untrustedEnv, ids |-> {}, stopped |-> FALSE]

AddProcessFromConfig(pm, id) ==
    IF pm.noop THEN pm ELSE [pm EXCEPT !.ids = @ \cup {id}]

RemoveProcessByID(pm, id) ==
    IF pm.noop THEN pm ELSE [pm EXCEPT !.ids = @ \ {id}]

StopProcessManager(pm) ==
    IF pm.noop THEN pm ELSE [pm EXCEPT !.stopped = TRUE]

\* resourceManager.markRemoved, the processes of the removed config: each one
\* leaves the manager for the shadow manager that stops it later
RECURSIVE markRemovedProcesses(_, _, _)
markRemovedProcesses(pm, removed, o) ==
    IF removed = <<>> THEN pm
    ELSE markRemovedProcesses(
            IF ~IsProcess(Head(removed)) \/ processesDisabled(o) THEN pm
            ELSE RemoveProcessByID(pm, Head(removed)),
            Tail(removed), o)

\* the entries of a removed config in the order markRemoved visits them:
\* remotes, then components, then services, each list in the config's order
\* (the shell service is skipped in an untrusted environment, line 961)
RemovedEntries(removed, o) ==
    SelectSeq(removed, LAMBDA n : n.api = RemoteAPI)
    \o SelectSeq(removed, LAMBDA n : IsComponent(n.api))
    \o SelectSeq(removed, LAMBDA n : IsService(n.api) /\ ~shellDisabled(o, n))

\* a markRemoved that marks the node of each entry and not its dependents
markRemovedRootsOnly(m, removed, o) ==
    MarkForRemoval(m, SeqToSet(RemovedEntries(removed, o)) \cap Names(m))

\* resourceManager.markRemoved: the graph afterwards
markRemoved(m, removed, o) == MarkRemovedEntries(m, RemovedEntries(removed, o))

\* resourceManager.markRemoved: the set of marked names it returns, the names
\* of the subgraph of every entry that has a node (addNames)
markedResourceNames(m, removed, o) ==
    UNION {SubGraphFrom(m, n) : n \in SeqToSet(RemovedEntries(removed, o)) \cap Names(m)}

\* resourceManager.markRemoved: the close-only handles it returns, in order
resourcesToCloseBeforeComplete(m, removed, o) ==
    SelectSeq(RemovedEntries(removed, o), LAMBDA n : HasNode(m, n))

\* resourceManager.removeMarkedAndClose
RECURSIVE CloseHandles(_, _, _)
CloseHandles(tr, toClose, excludeFromClose) ==
    IF toClose = <<>> THEN tr
    ELSE CloseHandles(IF Head(toClose) \in excludeFromClose THEN tr
                      ELSE Append(tr, [op |-> "Close", name |-> Head(toClose)]),
                      Tail(toClose), excludeFromClose)

\* removeMarkedAndClose without the exclusions
removeMarkedAndCloseAll(m, excludeFromClose) ==
    [RemoveMarked(m) EXCEPT !.tr = CloseHandles(m.tr, RemoveMarkedHandles(m), {})]

removeMarkedAndClose(m, excludeFromClose) ==
    [RemoveMarked(m) EXCEPT
        !.tr = CloseHandles(m.tr, RemoveMarkedHandles(m), excludeFromClose)]

\* localRobot.getDependencies: the handles of the nodes a node depends on;
\* fails while a dependency is unresolved or gives no resource
getDependenciesOk(m, name) ==
    /\ m.nodes[name].unresolved = {}
    /\ \A p \in GetAllParentsOf(m, name) :
          HasNode(m, p) /\ ResourceErr(m.nodes[p]) = NoErr

\* the end of the loop body without the marking of the dependents
FinishResourceNoMark(m, name, newRes, newlyBuilt, err) ==
    IF err # NoErr
    THEN Event([m EXCEPT !.nodes[name] = SetLastError(@, err)], "SetLastError", name)
    ELSE Event([m EXCEPT !.nodes[name] =
                    SwapResource(@, newRes, m.nodes[name].config.model)],
               "SwapResource", name)

\* completeConfig, after processResource returned for a node (lines 538-551):
\* dependents are marked when it was newly built or failed, then the error is
\* recorded or the handle swapped in
FinishResource(m, name, newRes, newlyBuilt, err) ==
    LET m1 == IF newlyBuilt \/ err # NoErr THEN markChildrenForUpdate(m, name) ELSE m
    IN IF err # NoErr
       THEN Event([m1 EXCEPT !.nodes[name] = SetLastError(@, err)], "SetLastError", name)
       ELSE Event([m1 EXCEPT !.nodes[name] =
                        SwapResource(@, newRes, m.nodes[name].config.model)],
                  "SwapResource", name)

\* the order in which completeConfig sweeps the graph (line 503)
SweepOrderForward(m) == TopologicalSort(m.edges, Names(m))

SweepOrder(m) == ReverseTopologicalSort(m.edges, Names(m))

\* a sweep that processes every component and service of the graph
SweepVisitsAll(m, name) ==
    /\ HasNode(m, name)
    /\ IsComponent(name.api) \/ IsService(name.api)

\* whether the sweep of completeConfig processes a name at all (lines 505-511)
SweepVisits(m, name) ==
    /\ HasNode(m, name)
    /\ NeedsReconfigure(m.nodes[name])
    /\ IsComponent(name.api) \/ IsService(name.api)

\* whether processResource goes on to construct a resource: the node is
\* uninitialized, or its model changed, or Reconfigure asked for a rebuild
MustBuild(m, name, out) ==
    LET node == m.nodes[name]
    IN /\ SweepVisits(m, name)
       /\ node.config.valid
       /\ \/ IsUninitialized(node)
          \/ /\ getDependenciesOk(m, name)
             /\ node.model # node.config.model \/ out = "rebuild"

\* completeConfig on one name of the sweep, up to the construction of a new
\* resource: validation, and processResource up to its call of newResource.
\* out: what the driver's Reconfigure returns if it is called
ProcessResourceBegin(m, name, out) ==
    IF ~SweepVisits(m, name) THEN m
    ELSE LET node == m.nodes[name]
         IN IF ~node.config.valid
            THEN Event([m EXCEPT !.nodes[name] = SetLastError(@, "validation")],
                       "SetLastError", name)
            ELSE IF IsUninitialized(node) THEN m
            ELSE IF ~getDependenciesOk(m, name)
            THEN FinishResource(closeResource(m, name), name, NoRes, FALSE, "dependencies")
            ELSE IF node.model = node.config.model
            THEN LET m1 == Event(m, "Reconfigure", name)
                 IN IF out = "ok" THEN FinishResource(m1, name, node.res, FALSE, NoErr)
                    ELSE IF out = "err"
                    THEN FinishResource(m1, name, NoRes, FALSE, "reconfigure")
                    ELSE closeResource(m1, name)
            ELSE closeResource(m, name)

\* a build that swaps in whatever the constructor left behind when it failed
ProcessResourceBuildSwapsPartial(m, name, out) ==
    IF ~HasNode(m, name) THEN m
    ELSE IF ~getDependenciesOk(m, name)
    THEN FinishResource(m, name, NoRes, FALSE, "dependencies")
    ELSE FinishResource(Event(m, "Construct", name), name, "open", TRUE, NoErr)

\* processResource from its call of newResource on, and the rest of
\* completeConfig for the name.  out: what the driver's constructor returns
ProcessResourceBuild(m, name, out) ==
    IF ~HasNode(m, name) THEN m
    ELSE IF ~getDependenciesOk(m, name)
    THEN FinishResource(m, name, NoRes, FALSE, "dependencies")
    ELSE LET m1 == Event(m, "Construct", name)
         IN IF out = "ok" THEN FinishResource(m1, name, "open", TRUE, NoErr)
            ELSE FinishResource(m1, name, NoRes, FALSE, "construct")

\* the remote phase that treats a failed dial as the loss of the remote: the
\* dependents of the remote node are marked for update
ProcessRemoteMarksOnFailure(m, resName, up, reported, fetch) ==
    IF ~HasNode(m, resName) \/ ~NeedsReconfigure(m.nodes[resName]) THEN m
    ELSE IF ~m.nodes[resName].config.valid
    THEN Event([m EXCEPT !.nodes[resName] = SetLastError(@, "validation")],
               "SetLastError", resName)
    ELSE LET m1 == Event(m, "Dial", resName)
         IN IF ~up
            THEN Event([markChildrenForUpdate(m1, resName)
                           EXCEPT !.nodes[resName] = SetLastError(@, "connection")],
                       "SetLastError", resName)
            ELSE addRemote(m1, resName, reported, fetch)

\* a remote phase that dials and attaches the remote but leaves the
\* reconciliation of its resources to the reconfigure task
ProcessRemoteDialOnly(m, resName, up, reported, fetch) ==
    IF ~HasNode(m, resName) \/ ~NeedsReconfigure(m.nodes[resName]) THEN m
    ELSE IF ~m.nodes[resName].config.valid
    THEN Event([m EXCEPT !.nodes[resName] = SetLastError(@, "validation")],
               "SetLastError", resName)
    ELSE LET m1 == Event(m, "Dial", resName)
         IN IF ~up
            THEN Event([m1 EXCEPT !.nodes[resName] = SetLastError(@, "connection")],
                       "SetLastError", resName)
            ELSE [m1 EXCEPT !.nodes[resName] = SwapResource(@, "open", builtinModel)]

\* completeConfig, the remotes (lines 446-495), for one remote node.
\* up: whether the dial succeeds
ProcessRemote(m, resName, up, reported, fetch) ==
    IF ~HasNode(m, resName) \/ ~NeedsReconfigure(m.nodes[resName]) THEN m
    ELSE IF ~m.nodes[resName].config.valid
    THEN Event([m EXCEPT !.nodes[resName] = SetLastError(@, "validation")],
               "SetLastError", resName)
    ELSE LET m1 == Event(m, "Dial", resName)
         IN IF ~up
            THEN Event([m1 EXCEPT !.nodes[resName] = SetLastError(@, "connection")],
                       "SetLastError", resName)
            ELSE addRemote(m1, resName, reported, fetch)

RECURSIVE ProcessRemotes(_, _, _, _, _)
ProcessRemotes(m, remotes, up, reported, fetch) ==
    IF remotes = <<>> THEN m
    ELSE ProcessRemotes(ProcessRemote(m, Head(remotes), up, reported, fetch),
                        Tail(remotes), up, reported, fetch)

\* whether the remote phase of a pass dials some remote successfully
DialsRemote(m, up) ==
    \E n \in Names(m) : /\ n.api = RemoteAPI
                         /\ NeedsReconfigure(m.nodes[n])
                         /\ m.nodes[n].config.valid
                         /\ up

\* resourceManager.updateRemotesResourceNames; once a remote reported a change,
\* anythingChanged || ... no longer calls updateRemoteResourceNames (line 235)
RECURSIVE UpdateRemotes(_, _, _, _)
UpdateRemotes(m, names, reported, fetch) ==
    IF names = <<>> THEN m
    ELSE LET name == Head(names)
             m1 == IF /\ name.api = RemoteAPI
                      /\ ResourceErr(m.nodes[name]) = NoErr
                      /\ ~m.changed
                   THEN updateRemoteResourceNames(m, name, reported, fetch)
                   ELSE m
         IN UpdateRemotes(m1, Tail(names), reported, fetch)

updateRemotesResourceNames(m, reported, fetch) ==
    UpdateRemotes(m, SortNames(Names(m)), reported, fetch)

\* resourceManager.anyResourcesNotConfigured
anyResourcesNotConfigured(g) == \E n \in Names(g) : NeedsReconfigure(g.nodes[n])

RECURSIVE MarkForUpdateAll(_, _, _)
MarkForUpdateAll(m, names, upd) ==
    IF names = <<>> THEN m
    ELSE MarkForUpdateAll(markResourceForUpdate(m, Head(names), upd[Head(names)]),
                          Tail(names), upd)

\* resourceManager.updateResources, the resources of the diff (lines 781-817):
\* every service, component and remote added or modified, the shell service
\* left out in an untrusted environment
updateResources(m, upd, o) ==
    MarkForUpdateAll(m, SortNames({n \in DOMAIN upd :
                                      ~IsProcess(n) /\ ~shellDisabled(o, n)}), upd)

\* resourceManager.updateResources, the processes of the diff (lines 820-850):
\* an added one is added, a modified one is removed, stopped and added again
RECURSIVE updateProcesses(_, _, _, _)
updateProcesses(pm, ids, modified, o) ==
    IF ids = <<>> \/ processesDisabled(o) THEN pm
    ELSE LET id == Head(ids)
             pm1 == IF id \in modified THEN RemoveProcessByID(pm, id) ELSE pm
         IN updateProcesses(AddProcessFromConfig(pm1, id), Tail(ids), modified, o)

errShellServiceDisabled == "shell service disabled in an untrusted environment"
errProcessesDisabled == "processes disabled in an untrusted environment"

\* resourceManager.updateResources: the errors combined into the one it returns
updateResourcesErrs(upd, o) ==
    (IF \E n \in DOMAIN upd : ~IsProcess(n) /\ shellDisabled(o, n)
     THEN {errShellServiceDisabled} ELSE {})
    \cup (IF (\E n \in DOMAIN upd : IsProcess(n)) /\ processesDisabled(o)
          THEN {errProcessesDisabled} ELSE {})

----------------------------------------------------------------------------
(* Inputs: the robot configs a reconfiguration may bring *)

Conf(model, deps) == [model |-> model, deps |-> deps, valid |-> TRUE]

RemoteConf == Conf("remote", {})

DepB == Dep(<<>>, "B")
DepC == Dep(<<>>, "C")
DepA == Dep(<<>>, "A")
DepX == Dep(<<"r1">>, "X")

\* the names a config can declare
ConfNames == {NA, NB, NC, R1}

EmptyConfig == <<>>

\* A depends on B depends on C
ChainConfig == (NA :> Conf("m1", {DepB})) @@ (NB :> Conf("m1", {DepC}))
               @@ (NC :> Conf("m1", {}))

\* the chain with another model for B
ChainConfigM2 == (NA :> Conf("m1", {DepB})) @@ (NB :> Conf("m2", {DepC}))
                 @@ (NC :> Conf("m1", {}))

\* A and B depend on each other
CycleConfig == (NA :> Conf("m1", {DepB})) @@ (NB :> Conf("m1", {DepA}))

\* a remote, and A depending on a resource of it
RemoteConfig == (R1 :> RemoteConf) @@ (NA :> Conf("m1", {DepX}))

\* the chain with another model for A and B
ChainConfigAll == (NA :> Conf("m2", {DepB})) @@ (NB :> Conf("m2", {DepC}))
                  @@ (NC :> Conf("m1", {}))

RobotConfigs == {EmptyConfig, ChainConfig, ChainConfigM2, ChainConfigAll, CycleConfig,
                 RemoteConfig}

\* the diff producer: what a new config removes, and what it adds or modifies
DiffRemoved(old, new) == DOMAIN old \ DOMAIN new

\* the orders in which a config can list the names S
Orders(S) == {s \in [1..Cardinality(S) -> S] : \A n \in S : \E i \in DOMAIN s : s[i] = n}

DiffModified(old, new) == {x \in DOMAIN new \cap DOMAIN old : old[x] # new[x]}

DiffUpdated(old, new) ==
    [n \in {x \in DOMAIN new : x \notin DOMAIN old \/ old[x] # new[x]} |-> new[n]]

\* the short names the remote robot can report
RemoteResources == {RX}

AllThreads == {"t1", "t2"}

TriggerCap == 1

----------------------------------------------------------------------------
(* State *)

NoName == "none"

\* ctx: the context given to the call in progress, "live" or "cancelled"
IdleLocal == [order |-> <<>>, cur |-> NoName, toClose |-> <<>>, upd |-> <<>>,
              modified |-> {}, ret |-> "idle", fresh |-> FALSE, ctx |-> "live",
              method |-> "none", seen |-> "none"]

Graph == [nodes |-> nodes, edges |-> edges]

Start == Work(nodes, edges)

InPass(t) == pc[t] \in {"cc_remotes", "cc_resolve", "cc_node", "cc_build"}

InUpdateResources(t) == pc[t] = "ur_body"

Quiescent == \A t \in AllThreads : pc[t] = "idle"

\* resourceManagerOptions as a robot started from a trusted config has them
DefaultOpts == [debug |-> FALSE, fromCommand |-> FALSE, allowInsecureCreds |-> FALSE,
                untrustedEnv |-> FALSE, tlsConfig |-> "nil"]

NoResult == [call |-> "none", errs |-> {}, names |-> {}]

NoInput == [op |-> "none"]

\* no image has been constructed
NoImage == [decodeOnce |-> "none"]

\* the history of a loss and recovery of remote resources: the graph before
\* the loss, the names lost and their local dependents that were live
NoSnap == [names |-> {}, edges |-> {}, lost |-> {}, live |-> {}]

Live(g, name) ==
    HasNode(g, name) /\ ResourceErr(g.nodes[name]) = NoErr /\ g.nodes[name].res = "open"

\* the history after a reconcile of the remote's names took the graph from g0
\* to m and dropped the names lost
RoundTripStep(h, g0, m, lost) ==
    IF lost # {} /\ \A r \in lost : Live(g0, r)
    THEN [h EXCEPT !.rt = "lost",
                   !.snap = [names |-> Names(g0), edges |-> g0.edges, lost |-> lost,
                             live |-> {d \in ReachDown(g0.edges, lost) \ lost :
                                          ~ContainsRemoteNames(d) /\ Live(g0, d)}]]
    ELSE IF h.rt = "lost" /\ \A r \in h.snap.lost : Live(m, r)
    THEN [h EXCEPT !.rt = "restored"]
    ELSE h

Init ==
    /\ nodes = <<>>
    /\ edges = {}
    /\ configLock = NoThread
    /\ pc = [t \in AllThreads |-> "idle"]
    /\ local = [t \in AllThreads |-> IdleLocal]
    /\ remoteSet = RemoteResources
    /\ remoteUp = TRUE
    /\ triggerConfig = 0
    /\ notifier = FALSE
    /\ notifying = 0
    /\ config = EmptyConfig
    /\ budget = [reconf |-> MaxReconfigures, remote |-> MaxRemoteChanges]
    /\ trace = <<>>
    /\ hist = [built |-> <<>>, failed |-> FALSE, done |-> FALSE, quiet |-> FALSE,
               attached |-> {},
               lost |-> {}, sinceNotify |-> 0,
               rt |-> "none", snap |-> NoSnap]
    /\ opts = DefaultOpts
    /\ procs = newProcessManager(opts)
    /\ result = NoResult
    /\ lei = NoImage
    /\ input = NoInput

\* the history after an action of thread t outside a pass that leaves the graph as m
Outside(t, m) ==
    [hist EXCEPT !.built = <<>>, !.failed = FALSE, !.done = FALSE, !.lost = {},
                 !.quiet = @ /\ m.nodes = nodes /\ m.edges = edges]

\* the history after a step of a pass on name that left the events tr
PassHistory(name, tr) ==
    [hist EXCEPT
        !.built = IF \E i \in 1..Len(tr) : tr[i] = [op |-> "SwapResource", name |-> name]
                  THEN Append(@, name) ELSE @,
        !.failed = @ \/ \E i \in 1..Len(tr) : tr[i].op = "SetLastError",
        !.lost = {}]

----------------------------------------------------------------------------
(* localRobot.Reconfigure: markRemoved, updateResources, the close-only     *)
(* handles, completeConfig, removeMarkedAndClose                            *)

MarkRemovedStep(t, new, removed) ==
    /\ pc[t] = "idle"
    /\ budget.reconf > 0
    /\ LET m == markRemoved(Start, removed, opts)
       IN /\ nodes' = m.nodes
          /\ edges' = m.edges
          /\ trace' = m.tr
          /\ local' = [local EXCEPT ![t] =
                 [IdleLocal EXCEPT
                     !.toClose = resourcesToCloseBeforeComplete(Start, removed, opts),
                     !.upd = DiffUpdated(config, new),
                     !.modified = DiffModified(config, new), !.ret = "rm"]]
          /\ hist' = [Outside(t, m) EXCEPT !.rt = "none", !.snap = NoSnap]
    /\ procs' = markRemovedProcesses(procs, removed, opts)
    /\ result' = [call |-> "markRemoved", errs |-> {},
                  names |-> markedResourceNames(Start, removed, opts)]
    /\ config' = new
    /\ pc' = [pc EXCEPT ![t] = "ur_lock"]
    /\ budget' = [budget EXCEPT !.reconf = @ - 1]
    /\ UNCHANGED <<configLock, remoteSet, remoteUp, triggerConfig, notifier, notifying>>
    /\ UNCHANGED <<opts, input, lei>>

UpdateResourcesLock(t) ==
    /\ pc[t] = "ur_lock"
    /\ configLock = NoThread
    /\ configLock' = t
    /\ pc' = [pc EXCEPT ![t] = "ur_body"]
    /\ trace' = <<>>
    /\ hist' = Outside(t, Start)
    /\ UNCHANGED <<nodes, edges, local, remoteSet, remoteUp, triggerConfig, notifier,
                   notifying, config, budget>>
    /\ UNCHANGED auxVars

UpdateResourcesBody(t) ==
    /\ pc[t] = "ur_body"
    /\ LET m == updateResources(Start, local[t].upd, opts)
       IN /\ nodes' = m.nodes
          /\ edges' = m.edges
          /\ trace' = m.tr
          /\ hist' = Outside(t, m)
    /\ procs' = updateProcesses(procs,
                     SortNames({n \in DOMAIN local[t].upd : IsProcess(n)}),
                     local[t].modified, opts)
    /\ result' = [call |-> "updateResources",
                  errs |-> updateResourcesErrs(local[t].upd, opts), names |-> {}]
    /\ configLock' = NoThread
    /\ pc' = [pc EXCEPT ![t] = "close_before"]
    /\ local' = [local EXCEPT ![t].upd = <<>>, ![t].modified = {}]
    /\ UNCHANGED <<remoteSet, remoteUp, triggerConfig, notifier, notifying, config,
                   budget>>
    /\ UNCHANGED <<opts, input, lei>>

RECURSIVE CloseNodes(_, _)
CloseNodes(m, names) ==
    IF names = <<>> THEN m
    ELSE CloseNodes(IF HasNode(m, Head(names)) THEN closeNode(m, Head(names)) ELSE m,
                    Tail(names))

CloseBeforeComplete(t) ==
    /\ pc[t] = "close_before"
    /\ LET m == CloseNodes(Start, local[t].toClose)
       IN /\ nodes' = m.nodes
          /\ edges' = m.edges
          /\ trace' = m.tr
          /\ hist' = Outside(t, m)
    /\ pc' = [pc EXCEPT ![t] = "cc_lock"]
    /\ UNCHANGED <<configLock, local, remoteSet, remoteUp, triggerConfig, notifier,
                   notifying, config, budget>>
    /\ UNCHANGED auxVars

RemoveMarkedStep(t) ==
    /\ pc[t] = "rm"
    /\ LET m == removeMarkedAndClose(Start, SeqToSet(local[t].toClose))
       IN /\ nodes' = m.nodes
          /\ edges' = m.edges
          /\ trace' = m.tr
          /\ hist' = Outside(t, m)
    /\ pc' = [pc EXCEPT ![t] = "idle"]
    /\ local' = [local EXCEPT ![t] = IdleLocal]
    /\ UNCHANGED <<configLock, remoteSet, remoteUp, triggerConfig, notifier, notifying,
                   config, budget>>
    /\ UNCHANGED auxVars

----------------------------------------------------------------------------
(* resourceManager.Close *)

errStoppingProcessManager == "error stopping process manager"

\* stopFails: processManager.Stop returns an error; failing: the names whose
\* driver's Close returns an error, which is combined under names
ManagerClose(t, stopFails, failing) ==
    /\ pc[t] = "idle"
    /\ LET marked == MarkForRemoval(Start, Names(Start))
           m == removeMarkedAndClose(marked, {WEB})
       IN /\ nodes' = m.nodes
          /\ edges' = m.edges
          /\ trace' = m.tr
          /\ hist' = Outside(t, m)
          /\ result' = [call |-> "Close",
                        errs |-> IF stopFails /\ ~procs.noop
                                 THEN {errStoppingProcessManager} ELSE {},
                        names |-> {n \in failing :
                                     \E i \in 1..Len(m.tr) :
                                         m.tr[i] = [op |-> "Close", name |-> n]}]
    /\ procs' = StopProcessManager(procs)
    /\ pc' = [pc EXCEPT ![t] = "closed"]
    /\ UNCHANGED <<configLock, local, remoteSet, remoteUp, triggerConfig, notifier,
                   notifying, config, budget, opts, input, lei>>

----------------------------------------------------------------------------
(* resourceManager.completeConfig, one step per suspension point *)

\* a completeConfig that does not wait for the mutex
CompleteConfigLockNoWait(t) ==
    /\ pc[t] = "cc_lock"
    /\ configLock' = t
    /\ pc' = [pc EXCEPT ![t] = "cc_remotes"]
    /\ trace' = <<>>
    /\ hist' = [hist EXCEPT !.built = <<>>, !.failed = FALSE, !.done = FALSE,
                            !.attached = {},
                            !.lost = {}]
    /\ UNCHANGED <<nodes, edges, local, remoteSet, remoteUp, triggerConfig, notifier,
                   notifying, config, budget>>
    /\ UNCHANGED auxVars

CompleteConfigLock(t) ==
    /\ pc[t] = "cc_lock"
    /\ configLock = NoThread
    /\ configLock' = t
    /\ pc' = [pc EXCEPT ![t] = "cc_remotes"]
    /\ trace' = <<>>
    /\ hist' = [hist EXCEPT !.built = <<>>, !.failed = FALSE, !.done = FALSE,
                            !.attached = {},
                            !.lost = {},
                            !.sinceNotify = IF local[t].fresh /\ @ < MaxPassCount THEN @ + 1 ELSE @,
                            !.rt = IF @ = "done" THEN "none" ELSE @,
                            !.snap = IF hist.rt = "done" THEN NoSnap ELSE @]
    /\ UNCHANGED <<nodes, edges, local, remoteSet, remoteUp, triggerConfig, notifier,
                   notifying, config, budget>>
    /\ UNCHANGED auxVars

\* the old remote resources that the remote no longer reports
LostNames(g, remoteName, reported) ==
    {r \in remoteResourceNames(g, remoteName) :
        \A x \in reported : PrependRemote(x, remoteName.name) # r}

\* the remotes that the remote phase with the outcome m dialled and attached
AttachedRemotes(m) ==
    {n \in Names(m) :
        /\ n.api = RemoteAPI
        /\ \E i \in 1..Len(m.tr) : m.tr[i] = [op |-> "Dial", name |-> n]
        /\ m.nodes[n].res = "open" /\ ResourceErr(m.nodes[n]) = NoErr}

CompleteConfigRemotes(t, fetch) ==
    /\ pc[t] = "cc_remotes"
    /\ LET m == ProcessRemotes(Start, FindNodesByAPI(Start, RemoteAPI), remoteUp,
                               remoteSet, fetch)
       IN /\ nodes' = m.nodes
          /\ edges' = m.edges
          /\ trace' = m.tr
          /\ notifier' = (notifier \/ DialsRemote(Start, remoteUp))
          /\ LET lost == IF DialsRemote(Start, remoteUp)
                         THEN LostNames(Start, R1, remoteSet) ELSE {}
             IN hist' = RoundTripStep(
                    [hist EXCEPT
                        !.failed = @ \/ \E i \in 1..Len(m.tr) : m.tr[i].op = "SetLastError",
                        !.attached = AttachedRemotes(m),
                        !.lost = lost],
                    Start, m, lost)
    /\ pc' = [pc EXCEPT ![t] = "cc_resolve"]
    /\ UNCHANGED <<configLock, local, remoteSet, remoteUp, triggerConfig, notifying,
                   config, budget>>
    /\ UNCHANGED auxVars

CompleteConfigResolve(t) ==
    /\ pc[t] = "cc_resolve"
    /\ LET m == ResolveDependencies(Start)
       IN /\ nodes' = m.nodes
          /\ edges' = m.edges
          /\ local' = [local EXCEPT ![t].order = SweepOrder(m)]
    /\ trace' = <<>>
    /\ hist' = [hist EXCEPT !.lost = {}]
    /\ pc' = [pc EXCEPT ![t] = "cc_node"]
    /\ UNCHANGED <<configLock, remoteSet, remoteUp, triggerConfig, notifier, notifying,
                   config, budget>>
    /\ UNCHANGED auxVars

\* a sweep that ends at the first node whose processing recorded an error
AbortSweepOnError(order, tr) ==
    IF \E i \in 1..Len(tr) : tr[i].op = "SetLastError" THEN <<>> ELSE Tail(order)

\* the sweep after a name was dealt with, whatever events tr that left: every
\* branch of the loop body ends in continue or falls through to the next name
\* (lines 507, 510, 525, 531, 549, 551)
ContinueSweep(order, tr) == Tail(order)

CompleteConfigNode(t, out) ==
    /\ pc[t] = "cc_node"
    /\ local[t].order # <<>>
    /\ LET name == Head(local[t].order)
           m == ProcessResourceBegin(Start, name, out)
       IN /\ nodes' = m.nodes
          /\ edges' = m.edges
          /\ trace' = m.tr
          /\ hist' = PassHistory(name, m.tr)
          /\ IF MustBuild(Start, name, out)
             THEN /\ pc' = [pc EXCEPT ![t] = "cc_build"]
                  /\ local' = [local EXCEPT ![t].cur = name]
             ELSE /\ pc' = pc
                  /\ local' = [local EXCEPT ![t].order = ContinueSweep(@, m.tr)]
    /\ UNCHANGED <<configLock, remoteSet, remoteUp, triggerConfig, notifier, notifying,
                   config, budget>>
    /\ UNCHANGED auxVars

CompleteConfigBuild(t, out) ==
    /\ pc[t] = "cc_build"
    /\ LET name == local[t].cur
           m == ProcessResourceBuild(Start, name, out)
       IN /\ nodes' = m.nodes
          /\ edges' = m.edges
          /\ trace' = m.tr
          /\ hist' = PassHistory(name, m.tr)
    /\ pc' = [pc EXCEPT ![t] = "cc_node"]
    /\ local' = [local EXCEPT
                     ![t].order = ContinueSweep(@, ProcessResourceBuild(Start, local[t].cur, out).tr),
                     ![t].cur = NoName]
    /\ UNCHANGED <<configLock, remoteSet, remoteUp, triggerConfig, notifier, notifying,
                   config, budget>>
    /\ UNCHANGED auxVars

CompleteConfigUnlock(t) ==
    /\ pc[t] = "cc_node"
    /\ local[t].order = <<>>
    /\ configLock' = NoThread
    /\ pc' = [pc EXCEPT ![t] = local[t].ret]
    /\ trace' = <<>>
    /\ hist' = [hist EXCEPT !.quiet = TRUE, !.done = TRUE, !.lost = {},
                            !.attached = {},
                            !.rt = IF @ = "restored" THEN "done" ELSE @]
    /\ UNCHANGED <<nodes, edges, local, remoteSet, remoteUp, triggerConfig, notifier,
                   notifying, config, budget>>
    /\ UNCHANGED auxVars

----------------------------------------------------------------------------
(* The reconfigure task of localRobot: woken through the trigger channel,   *)
(* it reconciles the remotes and completes the config if a node needs it    *)

WorkerWake(t) ==
    /\ pc[t] = "idle"
    /\ triggerConfig > 0
    /\ triggerConfig' = triggerConfig - 1
    /\ pc' = [pc EXCEPT ![t] = "w_update"]
    /\ local' = [local EXCEPT ![t] = [IdleLocal EXCEPT !.fresh = TRUE]]
    /\ trace' = <<>>
    /\ hist' = Outside(t, Start)
    /\ UNCHANGED <<nodes, edges, configLock, remoteSet, remoteUp, notifier,
                   notifying, config, budget>>
    /\ UNCHANGED auxVars

UpdateRemotesStep(t, fetch) ==
    /\ pc[t] = "w_update"
    /\ LET m == updateRemotesResourceNames(Start, remoteSet, fetch)
       IN /\ nodes' = m.nodes
          /\ edges' = m.edges
          /\ trace' = m.tr
          /\ LET lost == IF HasNode(Start, R1) /\ ResourceErr(nodes[R1]) = NoErr
                         THEN LostNames(Start, R1, remoteSet) ELSE {}
             IN hist' = RoundTripStep([Outside(t, m) EXCEPT !.lost = lost], Start, m, lost)
          /\ pc' = [pc EXCEPT ![t] = IF anyResourcesNotConfigured(m)
                                     THEN "cc_lock" ELSE "idle"]
    /\ UNCHANGED <<configLock, local, remoteSet, remoteUp, triggerConfig, notifier,
                   notifying, config, budget>>
    /\ UNCHANGED auxVars

----------------------------------------------------------------------------
(* The remote robot: its resource set changes and its connection comes and  *)
(* goes; its client then invokes the parent notifier (lines 482-490), which *)
(* blocks until the trigger channel takes the wake                          *)

RemoteChange(s, up) ==
    /\ budget.remote > 0
    /\ s # remoteSet \/ up # remoteUp
    /\ remoteSet' = s
    /\ remoteUp' = up
    /\ budget' = [budget EXCEPT !.remote = @ - 1]
    /\ IF notifier
       THEN /\ notifying' = notifying + 1
            /\ local' = [t \in AllThreads |-> [local[t] EXCEPT !.fresh = FALSE]]
            /\ hist' = [hist EXCEPT !.quiet = FALSE, !.lost = {}, !.done = FALSE,
                                    !.sinceNotify = 0]
       ELSE /\ UNCHANGED <<notifying, local>>
            /\ hist' = [hist EXCEPT !.quiet = FALSE, !.lost = {}, !.done = FALSE]
    /\ trace' = <<>>
    /\ UNCHANGED <<nodes, edges, configLock, pc, triggerConfig, notifier, config>>
    /\ UNCHANGED auxVars

\* the send of line 488 goes through when the channel has room
NotifySend ==
    /\ notifying > 0
    /\ triggerConfig < TriggerCap
    /\ triggerConfig' = triggerConfig + 1
    /\ notifying' = notifying - 1
    /\ trace' = <<>>
    /\ hist' = [hist EXCEPT !.lost = {}, !.done = FALSE]
    /\ UNCHANGED <<nodes, edges, configLock, pc, local, remoteSet, remoteUp, notifier,
                   config, budget>>
    /\ UNCHANGED auxVars

----------------------------------------------------------------------------
(* Specifications *)

Outcomes == {"ok", "err", "rebuild"}

ReconfigureNext(t) ==
    \/ \E new \in RobotConfigs : \E removed \in Orders(DiffRemoved(config, new)) :
          MarkRemovedStep(t, new, removed)
    \/ UpdateResourcesLock(t)
    \/ UpdateResourcesBody(t)
    \/ CloseBeforeComplete(t)
    \/ RemoveMarkedStep(t)

PassNext(t) ==
    \/ CompleteConfigLock(t)
    \/ CompleteConfigRemotes(t, remoteSet)
    \/ CompleteConfigResolve(t)
    \/ \E out \in Outcomes : CompleteConfigNode(t, out)
    \/ \E out \in {"ok", "err"} : CompleteConfigBuild(t, out)
    \/ CompleteConfigUnlock(t)

WorkerNext(t) ==
    \/ WorkerWake(t)
    \/ UpdateRemotesStep(t, remoteSet)

EnvNext ==
    \/ \E s \in SUBSET RemoteResources, up \in BOOLEAN : RemoteChange(s, up)
    \/ NotifySend

\* one thread of control runs every operation of the manager
Next ==
    \/ ReconfigureNext("t1")
    \/ PassNext("t1")
    \/ WorkerNext("t1")
    \/ Quiescent /\ EnvNext

Spec == Init /\ [][Next]_vars

----------------------------------------------------------------------------
(* Dialling a remote *)

\* an rpc.DialOption: its constructor and the arguments that matter
DialOption(opt, a, b) == [opt |-> opt, a |-> a, b |-> b]

NoCreds == "nil"

\* remoteDialOptions up to the credentials (lines 982-994)
TransportDialOptions(conf, o) ==
    (IF o.debug THEN <<DialOption("WithDialDebug", "", "")>> ELSE <<>>)
    \o (IF conf.Insecure THEN <<DialOption("WithInsecure", "", "")>> ELSE <<>>)
    \o (IF o.allowInsecureCreds
        THEN <<DialOption("WithAllowInsecureWithCredentialsDowngrade", "", "")>> ELSE <<>>)
    \o (IF o.tlsConfig # "nil" THEN <<DialOption("WithTLSConfig", o.tlsConfig, "")>> ELSE <<>>)

\* remoteDialOptions after the credentials (lines 1006-1034)
ExternalDialOptions(conf) ==
    (IF conf.ExternalAuthAddress # ""
     THEN <<DialOption("WithExternalAuth", conf.ExternalAuthAddress, "")>> ELSE <<>>)
    \o (IF conf.ExternalAuthInsecure
        THEN <<DialOption("WithExternalAuthInsecure", "", "")>> ELSE <<>>)
    \o (IF conf.SignalingServerAddress # ""
        THEN <<DialOption("WithWebRTCOptions", conf.SignalingServerAddress,
                          conf.SignalingCreds)>>
             \o (IF conf.Managed
                 THEN <<DialOption("WithDialMulticastDNSOptions", "RemoveAuthCredentials", "")>>
                 ELSE <<>>)
        ELSE <<>>)

\* remoteDialOptions without the branch that clears the credentials
remoteDialOptionsNoClear(conf, o) ==
    TransportDialOptions(conf, o)
    \o (IF conf.Credentials # NoCreds
        THEN IF conf.Entity = ""
             THEN <<DialOption("WithCredentials", "", conf.Credentials)>>
             ELSE <<DialOption("WithEntityCredentials", conf.Entity, conf.Credentials)>>
        ELSE <<>>)
    \o ExternalDialOptions(conf)

\* remoteDialOptions
remoteDialOptions(conf, o) ==
    TransportDialOptions(conf, o)
    \o (IF conf.Credentials # NoCreds
        THEN IF conf.Entity = ""
             THEN <<DialOption("WithCredentials", "", conf.Credentials)>>
             ELSE <<DialOption("WithEntityCredentials", conf.Entity, conf.Credentials)>>
        ELSE <<DialOption("WithEntityCredentials", "", "")>>)
    \o ExternalDialOptions(conf)

HasDialOption(dialOpts, opt) == \E i \in 1..Len(dialOpts) : dialOpts[i].opt = opt

ErrInsecureWithCredentials == "requested address is insecure and will not send credentials"
errUnreachable == "context deadline exceeded"
errUseFlag == "must use -allow-insecure-creds flag to connect to a non-TLS secured robot"
errUseConfig == "must use Config.AllowInsecureCreds to connect to a non-TLS secured robot"

\* dialRobotClient: the error of the dial, <<>> if it connects.  The rpc layer
\* refuses to send credentials over an insecure transport unless the
\* downgrade is allowed
dialRobotClient(dialOpts, reachable) ==
    IF /\ HasDialOption(dialOpts, "WithInsecure")
       /\ \E i \in 1..Len(dialOpts) :
             dialOpts[i].opt \in {"WithCredentials", "WithEntityCredentials"}
             /\ dialOpts[i].b # ""
       /\ ~HasDialOption(dialOpts, "WithAllowInsecureWithCredentialsDowngrade")
    THEN <<ErrInsecureWithCredentials>>
    ELSE IF reachable THEN <<>> ELSE <<errUnreachable>>

\* processRemote that gives the guidance of the command line to every caller
processRemoteFlagOnly(conf, o, reachable) ==
    LET err == dialRobotClient(remoteDialOptions(conf, o), reachable)
    IN IF err = <<>> THEN [client |-> TRUE, err |-> <<>>]
       ELSE [client |-> FALSE,
             err |-> <<"couldn't connect to robot remote">>
                     \o (IF err = <<ErrInsecureWithCredentials>> THEN <<errUseFlag>> ELSE err)]

\* resourceManager.processRemote: the client, or the error it returns, as the
\* messages it wraps from the outermost in
processRemote(conf, o, reachable) ==
    LET err == dialRobotClient(remoteDialOptions(conf, o), reachable)
    IN IF err = <<>> THEN [client |-> TRUE, err |-> <<>>]
       ELSE [client |-> FALSE,
             err |-> <<"couldn't connect to robot remote">>
                     \o (IF err = <<ErrInsecureWithCredentials>>
                         THEN IF o.fromCommand THEN <<errUseFlag>> ELSE <<errUseConfig>>
                         ELSE err)]

\* completeConfig on the node of a remote whose dial failed (lines 475-480)
RemoteDialFailed(node, err) ==
    SetLastError(node, <<"remote connection error">> \o err)

\* the names every query of the names leaves out
ResourceNamesAll(g) == Names(g)

\* resourceManager.ResourceNames
ResourceNames(g) ==
    {k \in Names(g) : /\ k.api # RemoteAPI
                      /\ k.api.ns # "rdk-internal"
                      /\ HasResource(g.nodes[k])}

\* resourceManager.mergeResourceRPCAPIsWithRemote: an API already in types
\* keeps its descriptor
mergeResourceRPCAPIsWithRemote(types, remoteTypes) ==
    [a \in DOMAIN types \cup DOMAIN remoteTypes |->
        IF a \in DOMAIN types THEN types[a] ELSE remoteTypes[a]]

\* resourceManager.ResourceRPCAPIs, the loop over resources.Names() taken in
\* the given order.  registered: resource.RegisteredAPIs() as API -> service
\* descriptor; remoteTypes: what ResourceRPCAPIs of the remote robot returns
RECURSIVE RPCAPIsOver(_, _, _, _, _)
RPCAPIsOver(g, order, types, registered, remoteTypes) ==
    IF order = <<>> THEN types
    ELSE LET k == Head(order)
             types1 ==
                IF k.api.ns = "rdk-internal" THEN types
                ELSE IF k.api = RemoteAPI
                THEN IF ~HasResource(g.nodes[k]) \/ ResourceErr(g.nodes[k]) # NoErr
                     THEN types
                     ELSE mergeResourceRPCAPIsWithRemote(types, remoteTypes)
                ELSE IF ContainsRemoteNames(k) THEN types
                ELSE IF k.api \in DOMAIN types THEN types
                ELSE IF k.api \notin DOMAIN registered THEN types
                ELSE types @@ (k.api :> registered[k.api])
         IN RPCAPIsOver(g, Tail(order), types1, registered, remoteTypes)

ResourceRPCAPIs(g, order, registered, remoteTypes) ==
    RPCAPIsOver(g, order, <<>>, registered, remoteTypes)

\* what a query returns: a handle (res) or an error (err) about a name, with
\* the error it wraps (cause)
Answer(res, err, name, cause) == [res |-> res, err |-> err, name |-> name, cause |-> cause]

\* the answer from gNode.UnsafeResource() instead: the handle whatever the error
NodeAnswerUnsafe(g, n, name) == Answer(g.nodes[n].res, NoErr, name, NoErr)

\* gNode.Resource() of node n as ResourceByName(name) returns it (lines 857-862
\* and 874-878): the handle, or NotAvailable about the name asked for
NodeAnswer(g, n, name) ==
    IF ResourceErr(g.nodes[n]) # NoErr
    THEN Answer(NoRes, "NotAvailable", name, ResourceErr(g.nodes[n]))
    ELSE Answer(g.nodes[n].res, NoErr, name, NoErr)

\* ResourceByName without the count of the partial matches: any match is taken
ResourceByNameFirstMatch(g, name) ==
    LET keys == FindNodesByShortNameAndAPI(g, name)
    IN IF HasNode(g, name) THEN NodeAnswer(g, name, name)
       ELSE IF ~ContainsRemoteNames(name) /\ keys # {}
       THEN NodeAnswer(g, CHOOSE k \in keys : TRUE, name)
       ELSE Answer(NoRes, "NotFound", name, NoErr)

\* ResourceByName with the partial matches looked at before the node of the name
ResourceByNamePartialFirst(g, name) ==
    LET keys == FindNodesByShortNameAndAPI(g, name)
    IN IF ~ContainsRemoteNames(name) /\ Cardinality(keys) > 1
       THEN Answer(NoRes, "RemoteResourceClash", name, NoErr)
       ELSE IF ~ContainsRemoteNames(name) /\ Cardinality(keys) = 1
       THEN NodeAnswer(g, CHOOSE k \in keys : TRUE, name)
       ELSE IF HasNode(g, name) THEN NodeAnswer(g, name, name)
       ELSE Answer(NoRes, "NotFound", name, NoErr)

\* resourceManager.ResourceByName
ResourceByName(g, name) ==
    LET keys == FindNodesByShortNameAndAPI(g, name)
    IN IF HasNode(g, name) THEN NodeAnswer(g, name, name)
       ELSE IF ~ContainsRemoteNames(name) /\ Cardinality(keys) > 1
       THEN Answer(NoRes, "RemoteResourceClash", name, NoErr)
       ELSE IF ~ContainsRemoteNames(name) /\ Cardinality(keys) = 1
       THEN NodeAnswer(g, CHOOSE k \in keys : TRUE, name)
       ELSE Answer(NoRes, "NotFound", name, NoErr)

\* the configs the concurrent callers of Reconfigure choose from
ConcConfigs == {RemoteConfig}

ReconfigureConc(t) ==
    \/ \E new \in ConcConfigs : \E removed \in Orders(DiffRemoved(config, new)) :
          MarkRemovedStep(t, new, removed)
    \/ UpdateResourcesLock(t)
    \/ UpdateResourcesBody(t)
    \/ CloseBeforeComplete(t)
    \/ RemoveMarkedStep(t)

\* callers of Reconfigure and the reconfigure task run in parallel, and the
\* remote changes at any time
NextConc ==
    \/ \E t \in AllThreads : ReconfigureConc(t)
    \/ PassNext("t1")
    \/ WorkerNext("t2")
    \/ PassNext("t2")
    \/ EnvNext

SpecConc == Init /\ [][NextConc]_vars

----------------------------------------------------------------------------
(* The manager under every choice of options, with a shell service and a    *)
(* process in the configs, a remote that exposes a shell service, and Close *)

\* a shell service, a component and a process
ShellConfig == (SH :> Conf("m1", {})) @@ (NA :> Conf("m1", {})) @@ (P1 :> Conf("m1", {}))

\* the same three, each one modified
ShellConfigM2 == (SH :> Conf("m2", {})) @@ (NA :> Conf("m2", {})) @@ (P1 :> Conf("m2", {}))

PolicyConfigs == {EmptyConfig, ShellConfig, ShellConfigM2, RemoteConfig}

\* what the remote robot of these runs reports
PolicyRemoteResources == {RX, SH}

OptionSets == [debug : {FALSE}, fromCommand : {FALSE}, allowInsecureCreds : BOOLEAN,
               untrustedEnv : BOOLEAN, tlsConfig : {"nil"}]

\* the state after newResourceManager(opts) and the start of the internal web
\* service by the robot
InitPolicy ==
    /\ nodes = (WEB :> NewConfiguredGraphNode(Conf(builtinModel, {}), "open", builtinModel))
    /\ edges = {}
    /\ configLock = NoThread
    /\ pc = [t \in AllThreads |-> "idle"]
    /\ local = [t \in AllThreads |-> IdleLocal]
    /\ remoteSet = PolicyRemoteResources
    /\ remoteUp = TRUE
    /\ triggerConfig = 0
    /\ notifier = FALSE
    /\ notifying = 0
    /\ config = EmptyConfig
    /\ budget = [reconf |-> MaxReconfigures, remote |-> MaxRemoteChanges]
    /\ trace = <<>>
    /\ hist = [built |-> <<>>, failed |-> FALSE, done |-> FALSE, quiet |-> FALSE,
               attached |-> {},
               lost |-> {}, sinceNotify |-> 0,
               rt |-> "none", snap |-> NoSnap]
    /\ opts \in OptionSets
    /\ procs = newProcessManager(opts)
    /\ result = NoResult
    /\ lei = NoImage
    /\ input = NoInput

ReconfigurePolicy(t) ==
    \/ \E new \in PolicyConfigs : \E removed \in Orders(DiffRemoved(config, new)) :
          MarkRemovedStep(t, new, removed)
    \/ UpdateResourcesLock(t)
    \/ UpdateResourcesBody(t)
    \/ CloseBeforeComplete(t)
    \/ RemoveMarkedStep(t)

\* the sets of names whose driver's Close returns an error: none, one, all
CloseFailures == {{}, {NA}, AllNames}

\* a pass in which the remote robot gives a client for some of the names it
\* reports and an error for the others (lines 154-166)
PassPolicy(t) ==
    \/ CompleteConfigLock(t)
    \/ \E fetch \in SUBSET remoteSet : CompleteConfigRemotes(t, fetch)
    \/ CompleteConfigResolve(t)
    \/ \E out \in Outcomes : CompleteConfigNode(t, out)
    \/ \E out \in {"ok", "err"} : CompleteConfigBuild(t, out)
    \/ CompleteConfigUnlock(t)

NextPolicy ==
    \/ ReconfigurePolicy("t1")
    \/ PassPolicy("t1")
    \/ \E stopFails \in BOOLEAN, failing \in CloseFailures :
          ManagerClose("t1", stopFails, failing)

SpecPolicy == InitPolicy /\ [][NextPolicy]_vars

----------------------------------------------------------------------------
(* Properties of the graph and of a pass *)

\* the position of the first event op on name in a trace, 0 if there is none
Pos(tr, op, name) ==
    IF \E i \in 1..Len(tr) : tr[i].op = op /\ tr[i].name = name
    THEN CHOOSE i \in 1..Len(tr) :
            /\ tr[i].op = op /\ tr[i].name = name
            /\ \A j \in 1..(i - 1) : ~(tr[j].op = op /\ tr[j].name = name)
    ELSE 0

\* the calls into drivers: constructors, Reconfigure, Close, and the dial of a remote
DriverCalls(tr) ==
    \E i \in 1..Len(tr) : tr[i].op \in {"Construct", "Reconfigure", "Close", "Dial"}

NoneNeedsReconfigure == \A n \in Names(Graph) : ~NeedsReconfigure(nodes[n])

\* C1: the resource graph is acyclic at all times, and an AddChild that would
\* close a cycle fails and leaves the graph unchanged
C1_Acyclic ==
    /\ ~HasCycle(edges)
    /\ \A c \in Names(Graph), p \in Names(Graph) :
          HasCycle(edges \cup {<<c, p>>}) => AddChild(Graph, c, p) = Graph

\* a pass resolved A's dependency on B and refused B's dependency on A
C1_Witness ==
    /\ pc["t1"] = "cc_node"
    /\ <<NA, NB>> \in edges
    /\ HasNode(Graph, NB)
    /\ DepA \in nodes[NB].unresolved
    /\ HasCycle(edges \cup {<<NB, NA>>})

\* the errors a driver or the validation of a config returns
DriverErrors == {"construct", "reconfigure", "validation", "connection"}

\* C2: within a pass a node is built only after every node it depends on that
\* is built in the same pass; a chain A -> B -> C built in one pass is built
\* in the order C, B, A, and after a pass in which no driver failed all three
\* give a resource
C2_BuildOrder ==
    /\ \A i \in 1..Len(hist.built), j \in 1..Len(hist.built) :
          <<hist.built[i], hist.built[j]>> \in edges => j < i
    /\ (/\ hist.done
        /\ {<<NA, NB>>, <<NB, NC>>} \subseteq edges
        /\ SeqToSet(hist.built) = {NA, NB, NC})
       => hist.built = <<NC, NB, NA>>
    /\ (/\ hist.done
        /\ {<<NA, NB>>, <<NB, NC>>} \subseteq edges
        /\ \A n \in {NA, NB, NC} :
              ~nodes[n].marked /\ nodes[n].lastErr \notin DriverErrors)
       => \A n \in {NA, NB, NC} :
             HasResource(nodes[n]) /\ ResourceErr(nodes[n]) = NoErr

C2_Witness ==
    /\ hist.done
    /\ {<<NA, NB>>, <<NB, NC>>} \subseteq edges
    /\ hist.built = <<NC, NB, NA>>

\* C3: the handles of removed nodes are closed in dependency order, leaves
\* first: when a handle is closed, every dependent that still holds an open
\* handle has been closed before it; this holds for removeMarkedAndClose and
\* for the close-only handles that markRemoved returns
C3_CloseOrder ==
    [][\A t \in AllThreads :
          (pc[t] \in {"close_before", "rm"} /\ pc'[t] # pc[t])
          => \A i \in 1..Len(trace') :
                trace'[i].op = "Close"
                => \A u \in ReachDown(edges, {trace'[i].name}) \ {trace'[i].name} :
                      (HasNode(Graph, u) /\ nodes[u].res = "open")
                      => \E j \in 1..(i - 1) : trace'[j] = [op |-> "Close", name |-> u]
      ]_vars

\* C4: a second pass with no diff and no external change in between changes
\* nothing in the graph and makes no driver call
C4_SecondPassNoop ==
    [][((\E t \in AllThreads : InPass(t)) /\ hist.quiet)
       => (nodes' = nodes /\ edges' = edges /\ ~DriverCalls(trace'))]_vars

\* C4, amended: the same, provided the first pass left no node that needs
\* reconfiguring
C4_SecondPassNoopConfigured ==
    [][((\E t \in AllThreads : InPass(t)) /\ hist.quiet /\ NoneNeedsReconfigure)
       => (nodes' = nodes /\ edges' = edges /\ ~DriverCalls(trace'))]_vars

\* a second pass on a fully configured graph is about to end
C4_Witness ==
    /\ hist.quiet
    /\ NoneNeedsReconfigure
    /\ pc["t1"] = "cc_node"
    /\ local["t1"].order = <<>>
    /\ \A n \in {NA, NB, NC} : Live(Graph, n)

C9_RoundTrip ==
    (hist.rt = "done" /\ hist.done /\ ~hist.failed)
    => /\ Names(Graph) = hist.snap.names
       /\ edges = hist.snap.edges
       /\ \A d \in hist.snap.live : Live(Graph, d)

\* C5: a reader that calls ResourceByName while a pass runs never obtains a
\* handle that has been closed: the old handle of a node is closed only after
\* the new one is swapped in
C5_ReaderNeverSeesClosed ==
    (\E t \in AllThreads : InPass(t))
    => \A n \in Names(Graph) : ResourceByName(Graph, n).res # "closed"

\* C6: at most one thread is inside completeConfig or updateResources, and
\* the thread inside holds the configuration mutex
C6_MutualExclusion ==
    /\ \A t \in AllThreads, u \in AllThreads :
          (t # u /\ (InPass(t) \/ InUpdateResources(t)))
          => ~(InPass(u) \/ InUpdateResources(u))
    /\ \A t \in AllThreads : (InPass(t) \/ InUpdateResources(t)) => configLock = t

\* the reconfigure task waits for the mutex while updateResources runs
C6_Witness ==
    /\ InUpdateResources("t1")
    /\ pc["t2"] = "cc_lock"

\* a thread acts in a step when its position or its locals change
Acts(t) == pc'[t] # pc[t] \/ local'[t] # local[t]

\* C7: every step that changes the nodes or the edges of the graph is taken
\* by the thread that holds the configuration mutex
C7_MutationUnderLock ==
    [][(nodes' # nodes \/ edges' # edges)
       => \E t \in AllThreads : Acts(t) /\ configLock = t]_vars

\* C10: at most one wake is pending on the trigger channel, and the
\* notifications that arrived up to the last one cause at most one pass of
\* the reconfigure task woken after it
C10_WakesCollapse ==
    /\ triggerConfig <= TriggerCap
    /\ hist.sinceNotify <= 1

----------------------------------------------------------------------------
(* The queries, each applied to every graph and argument of a bounded set *)

\* the states a node of the local robot is in: built, never built, failed
LocalNodeStates ==
    {NewConfiguredGraphNode(Conf("m1", {}), "open", "m1"),
     NewUnconfiguredGraphNode(Conf("m1", {}), {}),
     SetLastError(NewUnconfiguredGraphNode(Conf("m1", {}), {}), "construct")}

\* the states a node of a remote's resource is in: grafted, closed since
RemoteNodeStates ==
    {NewConfiguredGraphNode(Conf(unknownModel, {}), "open", unknownModel),
     CloseNode(NewConfiguredGraphNode(Conf(unknownModel, {}), "open", unknownModel))}

QueryLocalNames == {NA, RX}
QueryRemoteNames == {R1X, R2X}

\* the graphs over these names
QueryGraphs ==
    {[nodes |-> l @@ r, edges |-> {}] :
        l \in UNION {[S -> LocalNodeStates] : S \in SUBSET QueryLocalNames},
        r \in UNION {[S -> RemoteNodeStates] : S \in SUBSET QueryRemoteNames}}

ResourceByNameInputs ==
    [op : {"ResourceByName"}, g : QueryGraphs, name : QueryLocalNames \cup QueryRemoteNames]

\* the graphs given to ResourceRPCAPIs: an arm A, remote r1 connected or
\* closed, its arm r1:X, the internal web service
RPCGraphs ==
    {[nodes |-> l @@ r, edges |-> {}] :
        l \in UNION {[S -> {NewConfiguredGraphNode(Conf("m1", {}), "open", "m1")}] :
                        S \in SUBSET {NA, R1X, WEB}},
        r \in UNION {[S -> RemoteNodeStates] : S \in SUBSET {R1}}}

\* the service descriptors, by their fully qualified names
RegisteredAPIsSets == {<<>>, (ComponentAPI :> "local.ArmService")}

RemoteRPCAPIsSets ==
    {<<>>, (ComponentAPI :> "local.ArmService"), (ComponentAPI :> "remote.ArmService"),
     (ShellAPI :> "remote.ShellService")}

\* the remote configs and the options given to processRemote
RemoteAuthConfigs ==
    [Insecure : BOOLEAN, Credentials : {NoCreds, "secret"}, Entity : {"", "entity"},
     ExternalAuthAddress : {"", "auth.example"}, ExternalAuthInsecure : BOOLEAN,
     SignalingServerAddress : {"", "signal.example"}, SignalingCreds : {NoCreds, "sigsecret"},
     Managed : BOOLEAN]

DialOptionSets ==
    [debug : BOOLEAN, fromCommand : BOOLEAN, allowInsecureCreds : BOOLEAN,
     untrustedEnv : {FALSE}, tlsConfig : {"nil", "tls"}]

ProcessRemoteInputs ==
    [op : {"processRemote"}, conf : RemoteAuthConfigs, opts : DialOptionSets,
     reachable : BOOLEAN]

\* order: the order in which resources.Names() gives the names of g
ResourceRPCAPIsInputs ==
    UNION {{[op |-> "ResourceRPCAPIs", g |-> g, order |-> o, registered |-> reg,
             remoteTypes |-> rt] :
                o \in Orders(DOMAIN g.nodes), reg \in RegisteredAPIsSets,
                rt \in RemoteRPCAPIsSets} : g \in RPCGraphs}

InitQuery ==
    /\ nodes = <<>>
    /\ edges = {}
    /\ configLock = NoThread
    /\ pc = [t \in AllThreads |-> "idle"]
    /\ local = [t \in AllThreads |-> IdleLocal]
    /\ remoteSet = {}
    /\ remoteUp = TRUE
    /\ triggerConfig = 0
    /\ notifier = FALSE
    /\ notifying = 0
    /\ config = EmptyConfig
    /\ budget = [reconf |-> 0, remote |-> 0]
    /\ trace = <<>>
    /\ hist = [built |-> <<>>, failed |-> FALSE, done |-> FALSE, quiet |-> FALSE,
               attached |-> {},
               lost |-> {}, sinceNotify |-> 0,
               rt |-> "none", snap |-> NoSnap]
    /\ opts = DefaultOpts
    /\ procs = newProcessManager(opts)
    /\ result = NoResult
    /\ lei = NoImage
    /\ \/ input \in ResourceByNameInputs
       \/ input \in ResourceRPCAPIsInputs
       \/ input \in ProcessRemoteInputs

QueryFrame ==
    UNCHANGED <<nodes, edges, configLock, pc, local, remoteSet, remoteUp, triggerConfig,
                notifier, notifying, config, budget, trace, hist, opts, procs, input, lei>>

QueryResourceByName ==
    /\ input.op = "ResourceByName"
    /\ result.call = "none"
    /\ result' = [call |-> "ResourceByName", errs |-> {}, names |-> {},
                  answer |-> ResourceByName(input.g, input.name)]
    /\ QueryFrame

QueryResourceRPCAPIs ==
    /\ input.op = "ResourceRPCAPIs"
    /\ result.call = "none"
    /\ result' = [call |-> "ResourceRPCAPIs", errs |-> {}, names |-> {},
                  types |-> ResourceRPCAPIs(input.g, input.order, input.registered,
                                            input.remoteTypes)]
    /\ QueryFrame

\* completeConfig on a remote node that needs reconfigure: processRemote, and
\* the error recorded on the node if it fails
QueryProcessRemote ==
    /\ input.op = "processRemote"
    /\ result.call = "none"
    /\ LET r == processRemote(input.conf, input.opts, input.reachable)
           node == NewUnconfiguredGraphNode(RemoteConf, {})
       IN result' = [call |-> "processRemote", errs |-> {}, names |-> {},
                     dialOpts |-> remoteDialOptions(input.conf, input.opts),
                     client |-> r.client, err |-> r.err,
                     node |-> IF r.client THEN SwapResource(node, "open", builtinModel)
                              ELSE RemoteDialFailed(node, r.err)]
    /\ QueryFrame

NextQuery ==
    \/ QueryResourceByName
    \/ QueryResourceRPCAPIs
    \/ QueryProcessRemote

SpecQuery == InitQuery /\ [][NextQuery]_vars

\* what ResourceByName returned is what gNode.Resource() of node n gives
AnswersNode(g, n) ==
    /\ result.answer.name = input.name
    /\ IF ResourceErr(g.nodes[n]) = NoErr
       THEN result.answer.err = NoErr /\ result.answer.res = g.nodes[n].res
       ELSE /\ result.answer.err = "NotAvailable"
            /\ result.answer.cause = ResourceErr(g.nodes[n])
            /\ result.answer.res = NoRes

\* the nodes of remotes with the short name and API of name
Matches(g, name) ==
    {n \in DOMAIN g.nodes :
        n.api = name.api /\ n.name = name.name /\ Len(n.remote) > 0}

ResourceNamesNative ==
    \A k \in ResourceNames(Graph) :
        /\ k.api # RemoteAPI
        /\ k.api.ns # "rdk-internal"
        /\ k \in DOMAIN nodes /\ nodes[k].res # NoRes

\* the step of a pass that dialled remote r1 with success
Attached(t, fetch) ==
    /\ CompleteConfigRemotes(t, fetch)
    /\ \E i \in 1..Len(trace') : trace'[i] = [op |-> "Dial", name |-> R1]
    /\ R1 \in DOMAIN nodes' /\ nodes'[R1].res = "open"

\* the graph after the step has the node of x under r1, depending on r1
Grafted(x) ==
    /\ PrependRemote(x, R1.name) \in DOMAIN nodes'
    /\ <<PrependRemote(x, R1.name), R1>> \in edges'

\* C15 as stated: after remote r1 is attached, every resource X it exposes
\* has a node named r1:X with an edge to the remote node; and ResourceNames
\* never gives a remote node, an internal name or a name without a resource
C15_RemoteGrafted ==
    /\ [][\A t \in AllThreads : \A fetch \in SUBSET remoteSet :
            Attached(t, fetch) => \A x \in remoteSet : Grafted(x)]_vars
    /\ []ResourceNamesNative

\* C15 amended: every resource X for which the remote gives a client
C15_RemoteGraftedFetched ==
    /\ [][\A t \in AllThreads : \A fetch \in SUBSET remoteSet :
            Attached(t, fetch) => \A x \in fetch : Grafted(x)]_vars
    /\ []ResourceNamesNative

\* r1 is attached with its two resources, the internal web service is in the
\* graph, and ResourceNames gives the two resources of r1
C15_Witness ==
    /\ {R1, WEB, R1X, R1SH} \subseteq DOMAIN nodes
    /\ {<<R1X, R1>>, <<R1SH, R1>>} \subseteq edges
    /\ {R1X, R1SH} \subseteq ResourceNames(Graph)
    /\ pc["t1"] = "cc_resolve"

\* the APIs of the local resources of g that are registered
LocalRPCAPIs(g, registered) ==
    {k.api : k \in {n \in DOMAIN g.nodes : /\ n.api.ns # "rdk-internal"
                                           /\ n.api # RemoteAPI
                                           /\ Len(n.remote) = 0}} \cap DOMAIN registered

\* the APIs the connected remotes of g contribute
RemoteRPCAPIs(g, remoteTypes) ==
    IF \E k \in DOMAIN g.nodes : k.api = RemoteAPI /\ g.nodes[k].res # NoRes
    THEN DOMAIN remoteTypes ELSE {}

\* C16: ResourceRPCAPIs returns one entry for every API registered for a
\* local resource or contributed by a connected remote, and for an API that
\* both give it returns the local descriptor, in whatever order the names of
\* the graph are iterated
C16_LocalDescriptorWins ==
    result.call = "ResourceRPCAPIs" =>
        /\ DOMAIN result.types = LocalRPCAPIs(input.g, input.registered)
                                   \cup RemoteRPCAPIs(input.g, input.remoteTypes)
        /\ \A a \in LocalRPCAPIs(input.g, input.registered) :
              result.types[a] = input.registered[a]

\* a node that was given a resource at least once since it entered the graph
BuiltOnce(node) == node.model # "none"

\* a node whose last build failed, or that was never built, answers
\* NotAvailable with the name and the cause, and gives no handle
FailedIsNotAvailable(n) ==
    LET a == ResourceByName(Graph, n)
    IN nodes[n].lastErr # NoErr \/ ~BuiltOnce(nodes[n]) =>
          /\ a.err = "NotAvailable"
          /\ a.name = n
          /\ a.cause # NoErr
          /\ nodes[n].lastErr # NoErr => a.cause = nodes[n].lastErr
          /\ a.res = NoRes

\* C14 as stated: for a name whose node exists, ResourceByName returns the
\* handle exactly when the node was built at least once and its last build or
\* reconfigure did not fail; otherwise it returns NotAvailable with the name
\* and the cause, never NotFound and never a handle
C14_HandleIffBuilt ==
    \A n \in Names(Graph) :
        LET a == ResourceByName(Graph, n)
        IN /\ (a.err = NoErr /\ a.res # NoRes)
                <=> (BuiltOnce(nodes[n]) /\ nodes[n].lastErr = NoErr)
           /\ FailedIsNotAvailable(n)

\* C14 amended: the handle is returned exactly when, in addition, the node
\* has not been closed since, and NotAvailable otherwise
C14_HandleIffBuiltAndHeld ==
    \A n \in Names(Graph) :
        LET a == ResourceByName(Graph, n)
        IN /\ (a.err = NoErr /\ a.res # NoRes)
                <=> (/\ BuiltOnce(nodes[n])
                     /\ nodes[n].lastErr = NoErr
                     /\ ~IsUninitialized(nodes[n]))
           /\ a.err \in {NoErr, "NotAvailable"}
           /\ a.err = "NotAvailable" => a.res = NoRes /\ a.name = n
           /\ FailedIsNotAvailable(n)

\* A was built, and its last reconfigure failed
C14_Witness ==
    /\ NA \in DOMAIN nodes
    /\ BuiltOnce(nodes[NA])
    /\ nodes[NA].lastErr = "reconfigure"
    /\ ResourceByName(Graph, NA).err = "NotAvailable"

----------------------------------------------------------------------------
(* The untrusted environment *)

\* what an updateResources of thread t in an untrusted environment does with a
\* shell service of the diff and with the other resources of the diff
ShellRejectedStep(t) ==
    LET upd == local[t].upd
        shells == {n \in DOMAIN upd : n.api = ShellAPI}
        trusted == updateResources(Start, upd, DefaultOpts)
    IN /\ shells # {} => errShellServiceDisabled \in result'.errs
       /\ \A n \in shells :
             /\ n \in DOMAIN nodes' <=> n \in DOMAIN nodes
             /\ n \in DOMAIN nodes => nodes'[n] = nodes[n]
       /\ \A n \in DOMAIN upd \ shells :
             ~IsProcess(n) =>
                /\ n \in DOMAIN nodes'
                /\ nodes'[n].config = upd[n]
                /\ NeedsReconfigure(nodes'[n])
                /\ nodes'[n] = trusted.nodes[n]
                /\ {e \in edges' : e[1] = n} = {e \in trusted.edges : e[1] = n}

\* C11 as stated: in an untrusted environment an updateResources whose diff
\* has a shell service returns errShellServiceDisabled, leaves the graph
\* without a new or updated node for it and marks every other resource of the
\* diff as in trusted mode; and no node of the shell API is ever in the graph
C11_ShellRejected ==
    /\ [][\A t \in AllThreads :
            UpdateResourcesBody(t) /\ opts.untrustedEnv => ShellRejectedStep(t)]_vars
    /\ [](opts.untrustedEnv => \A n \in DOMAIN nodes : n.api # ShellAPI)

\* C11 amended: the same, and no node of the shell API that is not a resource
\* of a remote is ever in the graph
C11_LocalShellRejected ==
    /\ [][\A t \in AllThreads :
            UpdateResourcesBody(t) /\ opts.untrustedEnv => ShellRejectedStep(t)]_vars
    /\ [](opts.untrustedEnv =>
            \A n \in DOMAIN nodes : n.api = ShellAPI => ContainsRemoteNames(n))

\* an updateResources in an untrusted environment has just rejected the shell
\* service and marked the component of the same diff
C11_Witness ==
    /\ opts.untrustedEnv
    /\ pc["t1"] = "close_before"
    /\ result.call = "updateResources"
    /\ errShellServiceDisabled \in result.errs
    /\ SH \in DOMAIN config
    /\ NA \in DOMAIN nodes /\ NeedsReconfigure(nodes[NA])

\* C12: in an untrusted environment an updateResources whose diff has a
\* process returns errProcessesDisabled, and through every updateResources,
\* markRemoved and Close the process manager holds no process, removes none
\* and stops none
C12_ProcessesRejected ==
    /\ [][\A t \in AllThreads :
            (/\ UpdateResourcesBody(t)
             /\ opts.untrustedEnv
             /\ \E n \in DOMAIN local[t].upd : IsProcess(n))
            => errProcessesDisabled \in result'.errs]_vars
    /\ [](opts.untrustedEnv => procs.ids = {} /\ ~procs.stopped)
    /\ [][opts.untrustedEnv => procs' = procs]_vars

\* an updateResources in an untrusted environment has just rejected a
\* modified process
C12_Witness ==
    /\ opts.untrustedEnv
    /\ pc["t1"] = "close_before"
    /\ errProcessesDisabled \in result.errs
    /\ config = ShellConfigM2
    /\ budget.reconf = 0

----------------------------------------------------------------------------
(* Close of the manager *)

\* how many times the driver call op on name occurs in a trace
CountEvents(tr, op, name) ==
    Cardinality({i \in 1..Len(tr) : tr[i] = [op |-> op, name |-> name]})

\* the handles a Close from the current state has to close
HandlesToClose == {n \in DOMAIN nodes : n # WEB /\ nodes[n].res # NoRes}

----------------------------------------------------------------------------
(* Dial options of a remote *)

\* the credential entries among the dial options
CredentialEntries(dialOpts) ==
    SelectSeq(dialOpts, LAMBDA d : d.opt \in {"WithCredentials", "WithEntityCredentials"})

\* C18: for every remote config and options, remoteDialOptions gives exactly
\* one credential entry: the plain credentials when credentials are set and
\* the entity is empty, the entity with the credentials when both are set,
\* and an entity-credentials entry with empty entity and empty credentials
\* when no credentials are configured
C18_OneCredentialEntry ==
    result.call = "processRemote" =>
        LET entries == CredentialEntries(result.dialOpts)
            conf == input.conf
        IN /\ Len(entries) = 1
           /\ entries[1] =
                 IF conf.Credentials = NoCreds THEN DialOption("WithEntityCredentials", "", "")
                 ELSE IF conf.Entity = ""
                 THEN DialOption("WithCredentials", "", conf.Credentials)
                 ELSE DialOption("WithEntityCredentials", conf.Entity, conf.Credentials)

\* a remote whose config has an entity and no credentials was dialled with
\* the empty entity-credentials entry
C18_Witness ==
    /\ result.call = "processRemote"
    /\ input.conf.Credentials = NoCreds
    /\ input.conf.Entity = "entity"
    /\ CredentialEntries(result.dialOpts) = <<DialOption("WithEntityCredentials", "", "")>>

\* C19: the downgrade option is among the dial options exactly when
\* allowInsecureCreds is set; when it is not set and the dial is refused for
\* credentials over an insecure transport, processRemote returns no client
\* and an error that names the -allow-insecure-creds flag if the manager was
\* started from the command line and Config.AllowInsecureCreds otherwise, and
\* that error becomes the last error of the remote node
C19_InsecureCredsGuidance ==
    result.call = "processRemote" =>
        /\ HasDialOption(result.dialOpts, "WithAllowInsecureWithCredentialsDowngrade")
              <=> input.opts.allowInsecureCreds
        /\ (/\ ~input.opts.allowInsecureCreds
            /\ dialRobotClient(result.dialOpts, input.reachable)
                  = <<ErrInsecureWithCredentials>>)
           => /\ ~result.client
              /\ result.err # <<>>
              /\ result.err[Len(result.err)]
                    = IF input.opts.fromCommand THEN errUseFlag ELSE errUseConfig
              /\ \A i \in 1..Len(result.err) :
                    result.err[i] # (IF input.opts.fromCommand THEN errUseConfig
                                     ELSE errUseFlag)
              /\ result.node.lastErr = <<"remote connection error">> \o result.err
              /\ result.node.res = NoRes

\* a library caller dialled an insecure remote with credentials and without
\* the downgrade, and was told to use Config.AllowInsecureCreds
C19_Witness ==
    /\ result.call = "processRemote"
    /\ ~input.opts.allowInsecureCreds /\ ~input.opts.fromCommand
    /\ input.conf.Insecure /\ input.conf.Credentials # NoCreds
    /\ ~result.client
    /\ result.err = <<"couldn't connect to robot remote", errUseConfig>>
    /\ result.node.lastErr = <<"remote connection error">> \o result.err

----------------------------------------------------------------------------
(* Build failures *)

\* the errors completeConfig records for a failed processResource
BuildFailures == {"reconfigure", "dependencies", "construct"}

\* C20: when the reconfigure or the rebuild of a node that holds a resource
\* fails in a pass (error of Reconfigure, error gathering the dependencies,
\* error of the constructor after a rebuild was required), the node keeps its
\* previous handle, still open, has the failure as its last error and still
\* needs reconfigure
C20_FailureKeepsHandleOpen ==
    [][\A n \in DOMAIN nodes \cap DOMAIN nodes' :
          (/\ \E i \in 1..Len(trace') : trace'[i] = [op |-> "SetLastError", name |-> n]
           /\ nodes[n].res # NoRes
           /\ nodes'[n].lastErr \in BuildFailures)
          => /\ nodes'[n].res = "open"
             /\ NeedsReconfigure(nodes'[n])]_vars

----------------------------------------------------------------------------
(* Failures of a pass: configs that do not validate, a remote whose config  *)
(* is modified while its resources are grafted, a remote that cannot be     *)
(* dialled                                                                  *)

\* a config that fails Validate
InvalidConf(model, deps) == [model |-> model, deps |-> deps, valid |-> FALSE]

\* the remote of RemoteConfig at another address
RemoteConfigMoved == (R1 :> Conf("remote2", {})) @@ (NA :> Conf("m1", {DepX}))

\* the remote of RemoteConfig with a config that does not validate
RemoteConfigInvalid == (R1 :> InvalidConf("remote", {})) @@ (NA :> Conf("m1", {DepX}))

\* the chain with a config of B that does not validate
ChainConfigInvalid == (NA :> Conf("m1", {DepB})) @@ (NB :> InvalidConf("m1", {DepC}))
                      @@ (NC :> Conf("m1", {}))

\* two components that do not depend on each other
PairConfig == (NA :> Conf("m1", {})) @@ (NC :> Conf("m1", {}))

FailConfigs == {EmptyConfig, RemoteConfig, RemoteConfigMoved, RemoteConfigInvalid,
                ChainConfig, ChainConfigM2, ChainConfigInvalid, PairConfig}

ReconfigureFail(t) ==
    \/ \E new \in FailConfigs : \E removed \in Orders(DiffRemoved(config, new)) :
          MarkRemovedStep(t, new, removed)
    \/ UpdateResourcesLock(t)
    \/ UpdateResourcesBody(t)
    \/ CloseBeforeComplete(t)
    \/ RemoveMarkedStep(t)

NextFail ==
    \/ ReconfigureFail("t1")
    \/ PassNext("t1")
    \/ WorkerNext("t1")
    \/ Quiescent /\ EnvNext

SpecFail == Init /\ [][NextFail]_vars

\* the remote phase of a pass of thread t has just run
RemotesStep(t) == pc[t] = "cc_remotes" /\ pc'[t] = "cc_resolve"

\* the remote phase about to run cannot attach remote r1: its config does not
\* validate or the dial fails
RemoteFails ==
    /\ R1 \in DOMAIN nodes
    /\ NeedsReconfigure(nodes[R1])
    /\ ~nodes[R1].config.valid \/ ~remoteUp

\* the events of a trace that close a handle or mark a node for update
Disturbs(tr) == \E i \in 1..Len(tr) : tr[i].op \in {"Close", "SetNeedsUpdate", "SwapResource"}

\* C21: when validating or dialling a remote fails in a pass, the failure is
\* the last error of the remote node, every other node and every edge is as
\* before (nothing of the grafted subtree is removed, closed or marked for
\* update), and the remote node still needs reconfigure; a pass that finds the
\* node in that state with a valid config dials again; the rest of a pass
\* leaves every node of a remote's resource and its edge to the remote node
C21_RemoteFailureKeepsSubtree ==
    /\ [][\A t \in AllThreads :
            RemotesStep(t) /\ RemoteFails =>
               /\ nodes'[R1].lastErr = IF ~nodes[R1].config.valid THEN "validation"
                                       ELSE "connection"
               /\ nodes' = [nodes EXCEPT ![R1].lastErr = nodes'[R1].lastErr]
               /\ edges' = edges
               /\ NeedsReconfigure(nodes'[R1])
               /\ ~Disturbs(trace')]_vars
    /\ [][\A t \in AllThreads :
            (/\ RemotesStep(t)
             /\ R1 \in DOMAIN nodes
             /\ nodes[R1].lastErr \in {"validation", "connection"}
             /\ nodes[R1].config.valid)
            => \E i \in 1..Len(trace') : trace'[i] = [op |-> "Dial", name |-> R1]]_vars
    /\ [][\A t \in AllThreads :
            (pc[t] \in {"cc_resolve", "cc_node", "cc_build"} /\ Acts(t))
            => \A n \in DOMAIN nodes :
                  ContainsRemoteNames(n) =>
                     /\ n \in DOMAIN nodes' /\ nodes'[n] = nodes[n]
                     /\ {e \in edges' : e[1] = n} = {e \in edges : e[1] = n}]_vars

\* the dial of remote r1 failed in a pass while r1:X was grafted under it and
\* A was built on r1:X
C21_Witness ==
    /\ pc["t1"] = "cc_resolve"
    /\ R1 \in DOMAIN nodes /\ nodes[R1].lastErr = "connection"
    /\ NeedsReconfigure(nodes[R1])
    /\ R1X \in DOMAIN nodes /\ nodes[R1X].res = "open"
    /\ <<R1X, R1>> \in edges
    /\ <<NA, R1X>> \in edges /\ Live(Graph, NA)

\* a step of the sweep of thread t on the name at the head of its order
SweepStep(t) == pc[t] \in {"cc_node", "cc_build"} /\ Acts(t) /\ local[t].order # <<>>

\* the name a step of the sweep of thread t deals with
SweepName(t) == Head(local[t].order)

Recorded(tr, name) == \E i \in 1..Len(tr) : tr[i] = [op |-> "SetLastError", name |-> name]

\* the errors of a node's own config or driver
OwnFailures == {"validation", "construct", "reconfigure"}

\* C22: a validation or build failure on a node is recorded as that node's
\* last error and the sweep goes on with the rest of the sorted list; a pass
\* ends only when the list is exhausted, and then every component or service
\* that still needs reconfigure was processed and has an error recorded, which
\* is an error of its own config or driver unless one of its dependencies is
\* unresolved or gives no resource
C22_FailureDoesNotAbort ==
    /\ [][\A t \in AllThreads :
            (SweepStep(t) /\ Recorded(trace', SweepName(t)))
            => /\ nodes'[SweepName(t)].lastErr # NoErr
               /\ NeedsReconfigure(nodes'[SweepName(t)])
               /\ pc'[t] = "cc_node"
               /\ local'[t].order = Tail(local[t].order)]_vars
    /\ [][\A t \in AllThreads :
            (InPass(t) /\ ~InPass(t)')
            => /\ local[t].order = <<>>
               /\ \A n \in DOMAIN nodes :
                     (NeedsReconfigure(nodes[n]) /\ (IsComponent(n.api) \/ IsService(n.api)))
                     => /\ nodes[n].lastErr # NoErr
                        /\ nodes[n].lastErr \notin OwnFailures
                           => \/ nodes[n].unresolved # {}
                              \/ \E p \in GetAllParentsOf(Graph, n) :
                                    ResourceErr(nodes[p]) # NoErr]_vars

\* a pass ended in which the constructor of C failed and A, processed after
\* it, was built
C22_Witness ==
    /\ hist.done
    /\ config = PairConfig
    /\ nodes[NC].lastErr = "construct" /\ NeedsReconfigure(nodes[NC])
    /\ hist.built = <<NA>>
    /\ Live(Graph, NA)

----------------------------------------------------------------------------
(* Removal *)

\* thread t has just run markRemoved
MarkRemovedDone(t) == pc[t] = "idle" /\ pc'[t] = "ur_lock"

\* the entries of the removed config that markRemoved deals with: the
\* components, services and remotes that have a node, the shell service left
\* out in an untrusted environment
EntriesWithNode(removed) ==
    {n \in removed :
        /\ n.api = RemoteAPI \/ IsComponent(n.api) \/ IsService(n.api)
        /\ n \in DOMAIN nodes
        /\ ~(opts.untrustedEnv /\ n.api = ShellAPI)}

\* C23: after markRemoved, the node of every such entry and every transitive
\* dependent of it is marked for removal, nothing is removed or closed yet,
\* the names returned are exactly those of these subgraphs, and the close-only
\* handles returned are one per entry
C23_MarkRemovedMarksSubgraphs ==
    [][\A t \in AllThreads :
          MarkRemovedDone(t) =>
             LET entries == EntriesWithNode(DOMAIN config \ DOMAIN config')
                 sub == ReachDown(edges, entries) \cap DOMAIN nodes
             IN /\ DOMAIN nodes' = DOMAIN nodes /\ edges' = edges
                /\ \A n \in DOMAIN nodes :
                      /\ n \in sub => nodes'[n] = [nodes[n] EXCEPT !.marked = TRUE]
                      /\ n \notin sub => nodes'[n] = nodes[n]
                /\ trace' = <<>>
                /\ result'.call = "markRemoved"
                /\ result'.names = sub
                /\ SeqToSet(local'[t].toClose) = entries
                /\ Len(local'[t].toClose) = Cardinality(entries)]_vars

\* the remote r1 and the component A built on r1:X were removed: r1, its two
\* resources and A are marked and returned, with one handle for r1 and one for A
C23_Witness ==
    /\ pc["t1"] = "ur_lock"
    /\ result.call = "markRemoved"
    /\ result.names = {R1, R1X, R1SH, NA}
    /\ local["t1"].toClose = <<R1, NA>>
    /\ \A n \in {R1, R1X, R1SH, NA} : nodes[n].marked
    /\ <<NA, R1X>> \in edges
    /\ ~nodes[WEB].marked

----------------------------------------------------------------------------
(* Marking for update *)

\* thread t has just run updateResources
UpdateResourcesDone(t) == pc[t] = "ur_body" /\ pc'[t] = "close_before"

\* C24: markResourceForUpdate(name, config, deps), as updateResources applies
\* it to every resource of a diff: a node that exists gets the config and the
\* dependency list, needs reconfigure, loses every edge to a node it depends
\* on and keeps its handle, its model, its last error and the edges of its
\* dependents; a name without a node gets a new uninitialized node holding the
\* config; no other node changes and no handle is closed
C24_MarkResourceForUpdate ==
    [][\A t \in AllThreads :
          UpdateResourcesDone(t) =>
             LET upd == local[t].upd
                 names == {n \in DOMAIN upd : ~IsProcess(n) /\ ~shellDisabled(opts, n)}
             IN /\ DOMAIN nodes' = DOMAIN nodes \cup names
                /\ \A n \in names :
                      /\ nodes'[n].config = upd[n]
                      /\ nodes'[n].unresolved = upd[n].deps
                      /\ NeedsReconfigure(nodes'[n])
                      /\ n \in DOMAIN nodes =>
                            /\ nodes'[n].res = nodes[n].res
                            /\ nodes'[n].model = nodes[n].model
                            /\ nodes'[n].lastErr = nodes[n].lastErr
                      /\ n \notin DOMAIN nodes =>
                            nodes'[n] = NewUnconfiguredGraphNode(upd[n], upd[n].deps)
                /\ \A n \in DOMAIN nodes \ names : nodes'[n] = nodes[n]
                /\ edges' = {e \in edges : e[1] \notin names}
                /\ trace' = <<>>]_vars

\* B of the built chain was modified: it keeps its handle and the edge of A,
\* has the new config and no edge to C
C24_Witness ==
    /\ pc["t1"] = "close_before"
    /\ config = ChainConfigM2
    /\ nodes[NB].res = "open" /\ nodes[NB].model = "m1"
    /\ nodes[NB].config = Conf("m2", {DepC})
    /\ NeedsReconfigure(nodes[NB])
    /\ <<NA, NB>> \in edges
    /\ <<NB, NC>> \notin edges
    /\ Live(Graph, NC)

----------------------------------------------------------------------------
(* A model change in the middle of a chain *)

\* the chain A -> B -> C is in the graph, A and C are built and configured
ChainBuilt ==
    /\ {NA, NB, NC} \subseteq DOMAIN nodes
    /\ {<<NA, NB>>, <<NB, NC>>} \subseteq edges
    /\ Live(Graph, NA) /\ Live(Graph, NC)
    /\ ~NeedsReconfigure(nodes[NC])

\* the node holds a handle built from another model than its config, which
\* validates, asks for
ModelChanged(n) ==
    /\ nodes[n].res = "open" /\ nodes[n].lastErr = NoErr
    /\ NeedsReconfigure(nodes[n])
    /\ nodes[n].config.valid
    /\ nodes[n].model # nodes[n].config.model

EventsOn(tr, name) == SelectSeq(tr, LAMBDA e : e.name = name)

\* the pass closes the old B and then constructs a new one
ClosesOldB ==
    \A t \in AllThreads :
        (/\ pc[t] = "cc_node" /\ SweepStep(t) /\ SweepName(t) = NB
         /\ ChainBuilt /\ ModelChanged(NB))
        => /\ trace' = <<[op |-> "Close", name |-> NB]>>
           /\ pc'[t] = "cc_build"

\* when the constructor succeeds, A is marked for update and B swapped in
BuildsNewB ==
    \A t \in AllThreads :
        (/\ pc[t] = "cc_build" /\ SweepStep(t) /\ SweepName(t) = NB
         /\ ChainBuilt
         /\ EventsOn(trace', NB) # <<>>
         /\ trace'[Len(trace')].op = "SwapResource")
        => /\ trace' = <<[op |-> "Construct", name |-> NB],
                         [op |-> "SetNeedsUpdate", name |-> NA],
                         [op |-> "SwapResource", name |-> NB]>>
           /\ nodes'[NB].res = "open" /\ nodes'[NB].model = nodes[NB].config.model
           /\ NeedsReconfigure(nodes'[NA]) /\ ~NeedsReconfigure(nodes'[NB])
           /\ local'[t].order # <<>> /\ Head(local'[t].order) = NA

\* the pass is past B, which it swapped in, A is marked for update and is the
\* name at hand
AfterNewB(t) ==
    /\ pc[t] = "cc_node" /\ SweepStep(t) /\ SweepName(t) = NA
    /\ ChainBuilt
    /\ NB \in SeqToSet(hist.built)
    /\ nodes[NB].model = nodes[NB].config.model
    /\ NeedsReconfigure(nodes[NA])

\* C receives no driver call and its node does not change during a pass
CUntouched ==
    \A t \in AllThreads :
        (InPass(t) /\ Acts(t) /\ NC \in DOMAIN nodes /\ ~NeedsReconfigure(nodes[NC])
         /\ ~nodes[NC].marked)
        => /\ NC \in DOMAIN nodes' /\ nodes'[NC] = nodes[NC]
           /\ EventsOn(trace', NC) = <<>>

\* C25 as stated: after B's model changed in the built chain A -> B -> C, the
\* pass closes the old B, builds a new B and marks A for update; A is left to
\* the pass after that one; C receives no driver call and does not change
C25_ModelChangeNextPass ==
    /\ [][ClosesOldB]_vars
    /\ [][BuildsNewB]_vars
    /\ [][\A t \in AllThreads :
            AfterNewB(t) => EventsOn(trace', NA) = <<>> /\ NeedsReconfigure(nodes'[NA])]_vars
    /\ [][CUntouched]_vars

\* C25 amended: A is reconfigured, or closed to be rebuilt, later in the same
\* pass, after the new B is swapped in
C25_ModelChangeSamePass ==
    /\ [][ClosesOldB]_vars
    /\ [][BuildsNewB]_vars
    /\ [][\A t \in AllThreads :
            AfterNewB(t) =>
               /\ EventsOn(trace', NA) # <<>>
               /\ trace'[1] \in {[op |-> "Reconfigure", name |-> NA],
                                 [op |-> "Close", name |-> NA]}]_vars
    /\ [][CUntouched]_vars

\* the pass after the change of B's model ended: it rebuilt B and then
\* reconfigured A
C25_Witness ==
    /\ hist.done
    /\ config = ChainConfigM2
    /\ hist.built = <<NB, NA>>
    /\ nodes[NB].model = "m2"
    /\ \A n \in {NA, NB, NC} : Live(Graph, n) /\ ~NeedsReconfigure(nodes[n])

----------------------------------------------------------------------------
(* Where the resource of a node comes from *)

\* the remote node of a name with a remote hop: the node of its first hop
RemoteNodeOf(n) == fromRemoteNameToRemoteNodeName(Head(n.remote))

\* thread t has just reconciled the remotes, in a pass or in the reconfigure task
Reconciled(t) == pc[t] \in {"cc_remotes", "w_update"} /\ Acts(t)

\* the nodes a step added to the graph or gave a handle
AddedOrSwapped ==
    {n \in DOMAIN nodes' :
        \/ n \notin DOMAIN nodes
        \/ nodes'[n].res = "open" /\ nodes[n].res # "open"}

\* C26: every node that a reconcile of the remotes adds or gives a handle is
\* the node of a remote's resource, with a remote hop in its name and the
\* model unknown, or the remote node itself, with the model builtin; in every
\* state a node whose name has a remote hop has the model unknown and an edge
\* to its remote node, a remote node that holds a resource has the model
\* builtin, and every other node that holds a resource has the model of the
\* config it was built from
C26_ResourceOrigin ==
    /\ [][\A t \in AllThreads :
            Reconciled(t) =>
               \A n \in AddedOrSwapped :
                  \/ /\ ContainsRemoteNames(n)
                     /\ nodes'[n].model = unknownModel
                     /\ <<n, RemoteNodeOf(n)>> \in edges'
                  \/ /\ n.api = RemoteAPI
                     /\ nodes'[n].model = builtinModel]_vars
    /\ [](\A n \in DOMAIN nodes :
            /\ ContainsRemoteNames(n) =>
                  /\ nodes[n].model = unknownModel
                  /\ RemoteNodeOf(n) \in DOMAIN nodes
                  /\ <<n, RemoteNodeOf(n)>> \in edges
            /\ (n.api = RemoteAPI /\ HasResource(nodes[n])) =>
                  nodes[n].model = builtinModel
            /\ (~ContainsRemoteNames(n) /\ n.api # RemoteAPI /\ HasResource(nodes[n])) =>
                  /\ nodes[n].model \in Models \cup {builtinModel}
                  /\ nodes[n].model # unknownModel)

----------------------------------------------------------------------------
(* Cancellation of the context of a pass *)

Cancelled(t) == local[t].ctx = "cancelled"

\* the context of the pass of thread t is cancelled while the pass sweeps the
\* sorted names
Cancel(t) ==
    /\ pc[t] \in {"cc_node", "cc_build"}
    /\ ~Cancelled(t)
    /\ local' = [local EXCEPT ![t].ctx = "cancelled"]
    /\ trace' = <<>>
    /\ UNCHANGED <<nodes, edges, configLock, pc, remoteSet, remoteUp, triggerConfig,
                   notifier, notifying, config, budget, hist>>
    /\ UNCHANGED auxVars

\* a pass whose driver calls return the context's error once it is cancelled
PassCancel(t) ==
    \/ CompleteConfigLock(t)
    \/ CompleteConfigRemotes(t, remoteSet)
    \/ CompleteConfigResolve(t)
    \/ \E out \in Outcomes : (Cancelled(t) => out = "err") /\ CompleteConfigNode(t, out)
    \/ \E out \in {"ok", "err"} : (Cancelled(t) => out = "err") /\ CompleteConfigBuild(t, out)
    \/ CompleteConfigUnlock(t)

NextCancel ==
    \/ ReconfigureNext("t1")
    \/ PassCancel("t1")
    \/ Cancel("t1")

SpecCancel == Init /\ [][NextCancel]_vars

----------------------------------------------------------------------------
(* cleanAppImageEnv.  A string is the sequence of its pieces: "=" and ":"   *)
(* are the separators, MountText is a text that begins with /tmp/.mount_,   *)
(* any other piece is a text without separator and without that prefix.     *)
(* The name of a variable is a sequence of pieces too, the first of which   *)
(* is the prefix the function tests for.                                    *)

mountPrefix == "/tmp/.mount_"
MountText == "/tmp/.mount_a/usr/bin"

\* strings.Split
RECURSIVE Split(_, _)
Split(str, sep) ==
    IF \A i \in 1..Len(str) : str[i] # sep THEN <<str>>
    ELSE LET i == CHOOSE j \in 1..Len(str) :
                     str[j] = sep /\ \A k \in 1..(j - 1) : str[k] # sep
         IN <<SubSeq(str, 1, i - 1)>> \o Split(SubSeq(str, i + 1, Len(str)), sep)

\* strings.Join
RECURSIVE Join(_, _)
Join(elems, sep) ==
    IF elems = <<>> THEN <<>>
    ELSE IF Len(elems) = 1 THEN elems[1]
    ELSE elems[1] \o <<sep>> \o Join(Tail(elems), sep)

\* strings.HasPrefix, for a prefix that is one piece
HasPrefix(str, prefix) == Len(str) > 0 /\ str[1] = prefix

\* strings.Contains(str, mountPrefix)
ContainsMount(str) == \E i \in 1..Len(str) : str[i] = MountText

\* the names of the variables
APPIMAGE == <<"APPIMAGE">>
APPRUN_CWD == <<"APPRUN", "_CWD">>
ARGV0 == <<"ARGV0">>
ORIGIN == <<"ORIGIN">>
APPDIR == <<"APPDIR">>
AIX_TARGET == <<"AIX_", "TARGET">>
PATH == <<"PATH">>
LD_PRELOAD == <<"LD_PRELOAD">>

\* "APPRUN_ORIGINAL_" + key
Original(key) == <<"APPRUN", "_ORIGINAL_">> \o key

\* the order in which os.Environ lists the variables that are set
EnvOrder == <<APPIMAGE, APPRUN_CWD, ARGV0, APPDIR, AIX_TARGET, PATH, Original(PATH),
              LD_PRELOAD>>

Environ(env) == SelectSeq(EnvOrder, LAMBDA k : k \in DOMAIN env)

Setenv(env, key, value) ==
    [k \in DOMAIN env \cup {key} |-> IF k = key THEN value ELSE env[k]]

Unsetenv(env, key) == [k \in DOMAIN env \ {key} |-> env[k]]

Getenv(env, key) == IF key \in DOMAIN env THEN env[key] ELSE <<>>

\* first loop (lines 570-584): reset the original values where available
RECURSIVE ResetOriginals(_, _)
ResetOriginals(env, environ) ==
    IF environ = <<>> THEN env
    ELSE LET key == Head(environ)
             env1 == IF Original(key) \notin DOMAIN env THEN env
                     ELSE IF env[Original(key)] # <<>>
                     THEN Setenv(env, key, env[Original(key)])
                     ELSE Unsetenv(env, key)
         IN ResetOriginals(env1, Tail(environ))

\* second loop (lines 587-597): remove the variables of the AppImage
RECURSIVE UnsetAppImageVars(_, _)
UnsetAppImageVars(env, environ) ==
    IF environ = <<>> THEN env
    ELSE LET key == Head(environ)
             env1 == IF \/ HasPrefix(key, "APPRUN") \/ HasPrefix(key, "APPDIR")
                        \/ HasPrefix(key, "APPIMAGE") \/ HasPrefix(key, "AIX_")
                     THEN Unsetenv(env, key) ELSE env
         IN UnsetAppImageVars(env1, Tail(environ))

\* the paths of a value that stay (lines 610-614)
KeptPaths(value) ==
    SelectSeq(Split(value, ":"), LAMBDA path : ~HasPrefix(path, MountText) /\ path # <<>>)

\* third loop (lines 603-624): remove the paths of the AppImage
RECURSIVE RemoveMountPaths(_, _)
RemoveMountPaths(env, environ) ==
    IF environ = <<>> THEN env
    ELSE LET key == Head(environ)
             \* "key=value" is cut at every "=": eVar[1] here is the value
             \* up to its first "="
             eVar == Split(env[key], "=")
             env1 == IF ~ContainsMount(eVar[1]) THEN env
                     ELSE IF KeptPaths(eVar[1]) # <<>>
                     THEN Setenv(env, key, Join(KeptPaths(eVar[1]), ":"))
                     ELSE Unsetenv(env, key)
         IN RemoveMountPaths(env1, Tail(environ))

errChdir == "chdir: no such file or directory"

\* cleanAppImageEnv on the environment env and the working directory cwd of a
\* process, dirs being the directories that exist
cleanAppImageEnv(env, cwd, dirs) ==
    IF APPIMAGE \notin DOMAIN env THEN [env |-> env, cwd |-> cwd, err |-> NoErr]
    ELSE IF Getenv(env, APPRUN_CWD) \notin dirs
    THEN [env |-> env, cwd |-> cwd, err |-> errChdir]
    ELSE LET env1 == ResetOriginals(env, Environ(env))
             env2 == UnsetAppImageVars(Unsetenv(Unsetenv(env1, ARGV0), ORIGIN),
                                       Environ(Unsetenv(Unsetenv(env1, ARGV0), ORIGIN)))
         IN [env |-> RemoveMountPaths(env2, Environ(env2)),
             cwd |-> Getenv(env, APPRUN_CWD), err |-> NoErr]


\* the program at rest, before any call
AtRest ==
    /\ nodes = <<>>
    /\ edges = {}
    /\ configLock = NoThread
    /\ pc = [t \in AllThreads |-> "idle"]
    /\ local = [t \in AllThreads |-> IdleLocal]
    /\ remoteSet = {}
    /\ remoteUp = TRUE
    /\ triggerConfig = 0
    /\ notifier = FALSE
    /\ notifying = 0
    /\ config = EmptyConfig
    /\ budget = [reconf |-> 0, remote |-> 0]
    /\ trace = <<>>
    /\ hist = [built |-> <<>>, failed |-> FALSE, done |-> FALSE, quiet |-> FALSE,
               attached |-> {},
               lost |-> {}, sinceNotify |-> 0,
               rt |-> "none", snap |-> NoSnap]
    /\ opts = DefaultOpts
    /\ procs = newProcessManager(opts)

\* stands for a variable that is not set, when the inputs are drawn
Unset == <<"(unset)">>

\* values of a variable that holds paths
PathValues ==
    { <<>>,
      <<"/usr/bin">>,
      <<MountText>>,
      <<MountText, ":", "/usr/bin">>,
      <<"/usr/bin", ":", MountText, ":", "/opt/bin">>,
      <<"/usr/bin", ":", ":", MountText>>,
      <<"/srv", MountText>>,
      <<MountText, ":", "k", "=", "v">>,
      <<"k", "=", "v", ":", MountText>> }

OriginalValues == { <<>>, <<"/usr/bin">>, <<"/usr/bin", ":", "/opt/bin">> }

ExistingDirs == { <<"/home">> }

\* the environment in which the variables of EnvOrder hold vals, in that order
MakeEnv(vals) ==
    [k \in {EnvOrder[i] : i \in {j \in 1..Len(EnvOrder) : vals[j] # Unset}} |->
        vals[CHOOSE i \in 1..Len(EnvOrder) : EnvOrder[i] = k]]

\* the inputs of cleanAppImageEnv: each variable of EnvOrder unset or holding
\* one of a few values
InitEnv ==
    /\ AtRest
    /\ result = NoResult
    /\ lei = NoImage
    /\ \E a \in {Unset, <<"/opt/viam.AppImage">>},
          c \in {Unset, <<"/home">>, <<"/gone">>},
          z \in {Unset, <<"viam-server">>},
          d \in {Unset, <<MountText>>},
          x \in {Unset, <<"x86_64">>},
          p \in PathValues \cup {Unset},
          o \in OriginalValues \cup {Unset},
          l \in PathValues \cup {Unset} :
            input = [op |-> "cleanAppImageEnv", cwd |-> <<"/start">>,
                     env |-> MakeEnv(<<a, c, z, d, x, p, o, l>>)]

CleanAppImageEnv ==
    /\ input.op = "cleanAppImageEnv"
    /\ result.call = "none"
    /\ LET r == cleanAppImageEnv(input.env, input.cwd, ExistingDirs)
       IN result' = [call |-> "cleanAppImageEnv", errs |-> {}, names |-> {},
                     env |-> r.env, cwd |-> r.cwd, err |-> r.err]
    /\ QueryFrame

NextEnv == CleanAppImageEnv

SpecEnv == InitEnv /\ [][NextEnv]_vars

EnvNames == {EnvOrder[i] : i \in 1..Len(EnvOrder)} \cup {ORIGIN}

\* the colon-separated entries of a variable, none if it is unset
Entries(env, key) == IF key \in DOMAIN env THEN Split(env[key], ":") ELSE <<>>

NotMount(path) == ~HasPrefix(path, MountText)

AppImageName(key) ==
    \/ key \in {ARGV0, ORIGIN}
    \/ HasPrefix(key, "APPRUN") \/ HasPrefix(key, "APPDIR")
    \/ HasPrefix(key, "APPIMAGE") \/ HasPrefix(key, "AIX_")

\* the value the variable is to hold before the paths of the mount are taken
\* out of it: its original value if it had one, else its own
Restored(env, key) ==
    IF Original(key) \in DOMAIN env
    THEN (IF env[Original(key)] = <<>> THEN <<>> ELSE Split(env[Original(key)], ":"))
    ELSE Entries(env, key)

\* C28: when APPIMAGE is set and cleanAppImageEnv returns without error,
\* every variable that had an APPRUN_ORIGINAL_<name> value holds that value
\* (or is unset if it was empty); ARGV0, ORIGIN and every variable whose
\* name starts with APPRUN, APPDIR, APPIMAGE or AIX_ are unset; no entry
\* starting with /tmp/.mount_ remains in any variable and the other entries
\* are kept unchanged in their order; the working directory is APPRUN_CWD.
\* When APPIMAGE is not set, environment and working directory are unchanged.
C28_CleanAppImageEnv ==
    (result.call = "cleanAppImageEnv" /\ result.err = NoErr) =>
        IF APPIMAGE \in DOMAIN input.env
        THEN /\ \A k \in EnvNames :
                    (Original(k) \in DOMAIN input.env /\ ~AppImageName(k)) =>
                        IF input.env[Original(k)] = <<>>
                        THEN k \notin DOMAIN result.env
                        ELSE /\ k \in DOMAIN result.env
                             /\ result.env[k] = input.env[Original(k)]
             /\ \A k \in DOMAIN result.env : ~AppImageName(k)
             /\ \A k \in DOMAIN result.env :
                    \A i \in 1..Len(Entries(result.env, k)) :
                        NotMount(Entries(result.env, k)[i])
             /\ \A k \in EnvNames :
                    ~AppImageName(k) =>
                        Entries(result.env, k) = SelectSeq(Restored(input.env, k), NotMount)
             /\ result.cwd = Getenv(input.env, APPRUN_CWD)
        ELSE result.env = input.env /\ result.cwd = input.cwd


----------------------------------------------------------------------------
(* framesystemparts.TopologicallySort.  A part is its frame's name and the  *)
(* name of its parent; an error is the sequence of the pieces of its        *)
(* message, nil the empty one.                                              *)

MaxParts == 3

World == "world"

\* the names a frame can have, in ascending order of Go's string comparison
FrameNames == <<"a", "b", "c", "world">>

NameRank(name) == CHOOSE i \in 1..Len(FrameNames) : FrameNames[i] = name

nil == <<>>

NewMissingParentError(partName, parentName) ==
    <<"part with name", partName, "references non-existent parent", parentName>>

errNoWorld == <<"there are no robot parts that connect to a 'world' node">>

errCycle(frame) == <<"the system contains a cycle, have already visited frame", frame>>

\* lines 1096-1100
existingParts(parts) == {World} \cup {parts[i].name : i \in 1..Len(parts)}

\* children[parent] (lines 1102-1109): the parts naming it, in input order
children(parts, parent) == SelectSeq(parts, LAMBDA part : part.parent = parent)

\* the children as given, without the sort of lines 1127-1129
UnsortedChildren(ps) == ps

\* sort.Slice by FrameConfig.Name() (lines 1127-1129)
RECURSIVE SortedChildren(_)
SortedChildren(ps) ==
    IF ps = <<>> THEN <<>>
    ELSE LET least == CHOOSE i \in 1..Len(ps) :
                          \A j \in 1..Len(ps) :
                              \/ NameRank(ps[i].name) < NameRank(ps[j].name)
                              \/ NameRank(ps[i].name) = NameRank(ps[j].name) /\ i <= j
         IN <<ps[least]>> \o
            SortedChildren(SubSeq(ps, 1, least - 1) \o SubSeq(ps, least + 1, Len(ps)))

Name(part) == part.name

\* the loop of lines 1120-1135
RECURSIVE AddFrames(_, _, _, _)
AddFrames(parts, stack, visited, topoSortedParts) ==
    IF stack = <<>> THEN [parts |-> topoSortedParts, err |-> nil]
    ELSE LET parent == Head(stack)
             kids == SortedChildren(children(parts, parent))
         IN IF parent \in visited THEN [parts |-> <<>>, err |-> errCycle(parent)]
            ELSE AddFrames(parts, Tail(stack) \o [i \in 1..Len(kids) |-> Name(kids[i])],
                           visited \cup {parent}, topoSortedParts \o kids)

TopologicallySort(parts) ==
    LET missing == {i \in 1..Len(parts) : parts[i].parent \notin existingParts(parts)}
        first == CHOOSE i \in missing : \A j \in missing : i <= j
    IN IF missing # {}
       THEN [parts |-> <<>>,
             err |-> NewMissingParentError(parts[first].name, parts[first].parent)]
       ELSE IF parts = <<>> THEN [parts |-> <<>>, err |-> nil]
       ELSE IF children(parts, World) = <<>> THEN [parts |-> <<>>, err |-> errNoWorld]
       ELSE AddFrames(parts, <<World>>, {}, <<>>)

FrameParts == [name : SeqToSet(FrameNames), parent : SeqToSet(FrameNames)]

\* the inputs of TopologicallySort: every list of up to MaxParts parts
InitFrames ==
    /\ AtRest
    /\ result = NoResult
    /\ lei = NoImage
    /\ \E n \in 0..MaxParts :
           \E ps \in [1..n -> FrameParts] :
               input = [op |-> "TopologicallySort", parts |-> ps]

SortParts ==
    /\ input.op = "TopologicallySort"
    /\ result.call = "none"
    /\ LET r == TopologicallySort(input.parts)
       IN result' = [call |-> "TopologicallySort", errs |-> {}, names |-> {},
                     parts |-> r.parts, err |-> r.err]
    /\ QueryFrame

NextFrames == SortParts

SpecFrames == InitFrames /\ [][NextFrames]_vars

MissingParent(parts) ==
    \E i \in 1..Len(parts) :
        /\ parts[i].parent # World
        /\ \A j \in 1..Len(parts) : parts[j].name # parts[i].parent

IsMissingParentError(err) ==
    \E partName, parentName \in SeqToSet(FrameNames) :
        err = NewMissingParentError(partName, parentName)

\* C29: TopologicallySort returns a MissingParent error, and no parts,
\* whenever some part names a parent that is neither 'world' nor the name of
\* a part in the input; on success every part in the output appears after
\* the part that is its parent, and the children of one parent appear in
\* ascending order of name.
C29_TopologicallySort ==
    result.call = "TopologicallySort" =>
        /\ MissingParent(input.parts) =>
               IsMissingParentError(result.err) /\ result.parts = <<>>
        /\ result.err = nil =>
               /\ \A i \in 1..Len(result.parts) :
                      \/ result.parts[i].parent = World
                      \/ \E j \in 1..(i - 1) :
                             result.parts[j].name = result.parts[i].parent
               /\ \A i, j \in 1..Len(result.parts) :
                      (i < j /\ result.parts[i].parent = result.parts[j].parent) =>
                          NameRank(result.parts[i].name) <= NameRank(result.parts[j].name)

\* a sort that succeeds on three parts given in another order than the
\* result: two children of one parent and a grandchild
C29_Witness ==
    /\ result.call = "TopologicallySort"
    /\ result.err = nil
    /\ Len(result.parts) = 3
    /\ result.parts # input.parts
    /\ \E i, j \in 1..3 : i # j /\ result.parts[i].parent = result.parts[j].parent
    /\ \E i \in 1..3 : result.parts[i].parent # World


----------------------------------------------------------------------------
(* rimage.LazyEncodedImage, shared by the goroutines of AllThreads, each of *)
(* which makes one call on it.  decodedImage is an interface value of two   *)
(* words, type and data: "nil", "image", or "torn" when one word of the     *)
(* image is stored and the other is not yet.  decodes counts the runs of    *)
(* DecodeImage.                                                             *)

NewLazyEncodedImage(imgBytes, mimeType) ==
    [imgBytes |-> imgBytes, mimeType |-> mimeType, decodeOnce |-> "new",
     decodeErr |-> "nil", decodedImage |-> "nil", decodes |-> 0]

\* what DecodeImage returns for the bytes
DecodeImage(imgBytes, mimeType) ==
    IF imgBytes = "encoded image" THEN [image |-> "image", err |-> "nil"]
    ELSE [image |-> "nil", err |-> "image: unknown format"]

ImageInputs ==
    [op : {"NewLazyEncodedImage"}, imgBytes : {"encoded image", "corrupt bytes"},
     mimeType : {"image/png", "image/jpeg"}]

InitImage ==
    /\ AtRest
    /\ result = [call |-> "NewLazyEncodedImage", errs |-> {}, names |-> {}]
    /\ input \in ImageInputs
    /\ lei = NewLazyEncodedImage(input.imgBytes, input.mimeType)

ImageFrame ==
    UNCHANGED <<nodes, edges, configLock, remoteSet, remoteUp, triggerConfig, notifier,
                notifying, config, budget, trace, hist, opts, procs, result, input>>

\* MIMEType (lines 51-53)
MIMEType(t) ==
    /\ pc[t] = "idle"
    /\ local[t].method = "none"
    /\ pc' = [pc EXCEPT ![t] = "returned"]
    /\ local' = [local EXCEPT ![t].method = "MIMEType", ![t].seen = lei.mimeType]
    /\ UNCHANGED lei
    /\ ImageFrame

\* RawData (lines 57-59)
RawData(t) ==
    /\ pc[t] = "idle"
    /\ local[t].method = "none"
    /\ pc' = [pc EXCEPT ![t] = "returned"]
    /\ local' = [local EXCEPT ![t].method = "RawData", ![t].seen = lei.imgBytes]
    /\ UNCHANGED lei
    /\ ImageFrame

\* ColorModel (line 63): it calls decode
ColorModel(t) ==
    /\ pc[t] = "idle"
    /\ local[t].method = "none"
    /\ pc' = [pc EXCEPT ![t] = "decode"]
    /\ local' = [local EXCEPT ![t].method = "ColorModel"]
    /\ UNCHANGED lei
    /\ ImageFrame

\* At (line 80): it calls decode
At(t) ==
    /\ pc[t] = "idle"
    /\ local[t].method = "none"
    /\ pc' = [pc EXCEPT ![t] = "decode"]
    /\ local' = [local EXCEPT ![t].method = "At"]
    /\ UNCHANGED lei
    /\ ImageFrame

\* Bounds is called
Bounds(t) ==
    /\ pc[t] = "idle"
    /\ local[t].method = "none"
    /\ pc' = [pc EXCEPT ![t] = "bounds_check"]
    /\ local' = [local EXCEPT ![t].method = "Bounds"]
    /\ UNCHANGED lei
    /\ ImageFrame

\* Bounds, line 70: decode is called only if the field read is nil; the read
\* takes no lock and goes through no sync.Once
BoundsCheck(t) ==
    /\ pc[t] = "bounds_check"
    /\ pc' = [pc EXCEPT ![t] = IF lei.decodedImage = "nil" THEN "decode" ELSE "use"]
    /\ UNCHANGED <<local, lei>>
    /\ ImageFrame

\* decodeOnce.Do (line 33): the first caller runs the function, a caller that
\* comes while it runs waits until it has returned, a later one returns at once
DecodeOnceDo(t) ==
    /\ pc[t] = "decode"
    /\ lei.decodeOnce # "running"
    /\ IF lei.decodeOnce = "new"
       THEN /\ lei' = [lei EXCEPT !.decodeOnce = "running"]
            /\ pc' = [pc EXCEPT ![t] = "decode_image"]
       ELSE /\ pc' = [pc EXCEPT ![t] = "decode_err"]
            /\ UNCHANGED lei
    /\ UNCHANGED local
    /\ ImageFrame

\* the call of DecodeImage (lines 39-43)
RunDecodeImage(t) ==
    /\ pc[t] = "decode_image"
    /\ lei' = [lei EXCEPT !.decodes = @ + 1]
    /\ pc' = [pc EXCEPT ![t] = "store"]
    /\ UNCHANGED local
    /\ ImageFrame

\* the assignment of line 39, first word of lei.decodedImage (or, when the
\* decoding failed, lei.decodeErr, the image staying nil)
StoreFirstWord(t) ==
    /\ pc[t] = "store"
    /\ LET r == DecodeImage(lei.imgBytes, lei.mimeType)
       IN IF r.err = "nil"
          THEN /\ lei' = [lei EXCEPT !.decodedImage = "torn"]
               /\ pc' = [pc EXCEPT ![t] = "store_rest"]
          ELSE /\ lei' = [lei EXCEPT !.decodeErr = r.err]
               /\ pc' = [pc EXCEPT ![t] = "once_done"]
    /\ UNCHANGED local
    /\ ImageFrame

\* the assignment of line 39, second word of lei.decodedImage
StoreSecondWord(t) ==
    /\ pc[t] = "store_rest"
    /\ lei' = [lei EXCEPT !.decodedImage = "image"]
    /\ pc' = [pc EXCEPT ![t] = "once_done"]
    /\ UNCHANGED local
    /\ ImageFrame

\* the function given to decodeOnce.Do returns (line 44)
OnceDone(t) ==
    /\ pc[t] = "once_done"
    /\ lei' = [lei EXCEPT !.decodeOnce = "done"]
    /\ pc' = [pc EXCEPT ![t] = "decode_err"]
    /\ UNCHANGED local
    /\ ImageFrame

\* decode, lines 45-47
DecodeErrCheck(t) ==
    /\ pc[t] = "decode_err"
    /\ pc' = [pc EXCEPT ![t] = IF lei.decodeErr # "nil" THEN "panicked" ELSE "use"]
    /\ UNCHANGED <<local, lei>>
    /\ ImageFrame

\* lei.decodedImage.ColorModel(), .Bounds(), .At(x, y) (lines 64, 73, 81)
UseDecodedImage(t) ==
    /\ pc[t] = "use"
    /\ local' = [local EXCEPT ![t].seen = lei.decodedImage]
    /\ pc' = [pc EXCEPT ![t] = "returned"]
    /\ UNCHANGED lei
    /\ ImageFrame

NextImage ==
    \E t \in AllThreads :
        \/ MIMEType(t)
        \/ RawData(t)
        \/ ColorModel(t)
        \/ At(t)
        \/ Bounds(t)
        \/ BoundsCheck(t)
        \/ DecodeOnceDo(t)
        \/ RunDecodeImage(t)
        \/ StoreFirstWord(t)
        \/ StoreSecondWord(t)
        \/ OnceDone(t)
        \/ DecodeErrCheck(t)
        \/ UseDecodedImage(t)

SpecImage == InitImage /\ [][NextImage]_vars

DecodingMethods == {"ColorModel", "Bounds", "At"}

\* C30: construction, MIMEType and RawData never invoke the decoder, and
\* under any interleaving of concurrent ColorModel, Bounds and At calls on
\* one image the decoder runs exactly once, with every caller observing the
\* fully decoded image (no caller reads the decoded image before the decode
\* has completed).
C30_DecodedOnce ==
    /\ lei.decodes <= 1
    /\ (\A t \in AllThreads : local[t].method \notin DecodingMethods) => lei.decodes = 0
    /\ \A t \in AllThreads :
           (pc[t] = "returned" /\ local[t].method \in DecodingMethods) =>
               lei.decodes = 1 /\ local[t].seen = "image"


\* the number of times part occurs in parts
Occurrences(parts, part) == Cardinality({i \in 1..Len(parts) : parts[i] = part})

\* C38: whenever TopologicallySort returns without error, its output is a
\* permutation of its input (every input part appears exactly once, none is
\* dropped): an input with a cycle, or with parts not connected to 'world',
\* yields an error rather than a shorter list.
C38_SortIsPermutation ==
    (result.call = "TopologicallySort" /\ result.err = nil) =>
        \A part \in FrameParts :
            Occurrences(result.parts, part) = Occurrences(input.parts, part)


----------------------------------------------------------------------------
(* Remote reconciliation applied to given graphs: remotes r1 and r2, the    *)
(* resources grafted from them, and an arm A that depends on r1:X.          *)

\* a remote node whose client is connected, and one whose dial failed
RemoteNodeOpen == NewConfiguredGraphNode(RemoteConf, "open", builtinModel)
RemoteNodeFailed == SetLastError(NewUnconfiguredGraphNode(RemoteConf, {}), "connection")

GraftedNode == NewConfiguredGraphNode(Conf(unknownModel, {}), "open", unknownModel)

\* stands for a name without node, when the graphs are drawn
Absent == [res |-> "absent"]

\* the graph in which each name holds the node given for it, if any; the
\* resources of a remote hang on its node, and A on r1:X
ReconcileGraph(r2, r1x, r1sh, r2x, a) ==
    LET given == (R1 :> RemoteNodeOpen) @@ (R2 :> r2) @@ (R1X :> r1x) @@ (R1SH :> r1sh)
                 @@ (R2X :> r2x) @@ (NA :> a)
        present == {n \in DOMAIN given : given[n] # Absent}
    IN [nodes |-> [n \in present |-> given[n]],
        edges |-> {e \in {<<R1X, R1>>, <<R1SH, R1>>, <<R2X, R2>>, <<NA, R1X>>} :
                      e[1] \in present /\ e[2] \in present}]

\* the states of the node of a remote's resource in these graphs
GraftedStates == {Absent, GraftedNode, CloseNode(GraftedNode)}

\* A was built with a resource of r1, and is marked for update or not
DependentStates ==
    {Absent, NewConfiguredGraphNode(Conf("m1", {DepX}), "open", "m1"),
     SetNeedsUpdate(NewConfiguredGraphNode(Conf("m1", {DepX}), "open", "m1"))}

InitReconcile ==
    /\ AtRest
    /\ result = NoResult
    /\ lei = NoImage
    /\ \E r2 \in {Absent, RemoteNodeOpen, RemoteNodeFailed},
          r1x \in GraftedStates, r1sh \in GraftedStates, r2x \in GraftedStates,
          a \in DependentStates,
          reported \in SUBSET {RX, SH},
          op \in {"updateRemoteResourceNames", "updateRemotesResourceNames"} :
          \E fetch \in SUBSET reported :
            /\ r2 = Absent => r2x = Absent
            /\ r1x = Absent => a = Absent
            /\ input = [op |-> op, g |-> ReconcileGraph(r2, r1x, r1sh, r2x, a),
                        reported |-> reported, fetch |-> fetch]

\* updateRemoteResourceNames(ctx, r1, rr)
QueryUpdateRemoteResourceNames ==
    /\ input.op = "updateRemoteResourceNames"
    /\ result.call = "none"
    /\ LET m == updateRemoteResourceNames(Work(input.g.nodes, input.g.edges), R1,
                                          input.reported, input.fetch)
       IN result' = [call |-> "updateRemoteResourceNames", errs |-> {}, names |-> {},
                     nodes |-> m.nodes, edges |-> m.edges, tr |-> m.tr,
                     anythingChanged |-> m.changed]
    /\ QueryFrame

\* updateRemotesResourceNames(ctx)
QueryUpdateRemotesResourceNames ==
    /\ input.op = "updateRemotesResourceNames"
    /\ result.call = "none"
    /\ LET m == updateRemotesResourceNames(Work(input.g.nodes, input.g.edges),
                                           input.reported, input.fetch)
       IN result' = [call |-> "updateRemotesResourceNames", errs |-> {}, names |-> {},
                     nodes |-> m.nodes, edges |-> m.edges, tr |-> m.tr,
                     anythingChanged |-> m.changed]
    /\ QueryFrame

NextReconcile ==
    \/ QueryUpdateRemoteResourceNames
    \/ QueryUpdateRemotesResourceNames

SpecReconcile == InitReconcile /\ [][NextReconcile]_vars

\* the call left the graph as it was
GraphUnchanged == result.nodes = input.g.nodes /\ result.edges = input.g.edges

\* the names of the remote's resources in the graph are the ones it reports,
\* a client is given for each, and all their nodes hold a resource
SettledRemote(remoteName) ==
    /\ input.fetch = input.reported
    /\ remoteResourceNames(input.g, remoteName) =
           {PrependRemote(r, remoteName.name) : r \in input.reported}
    /\ \A n \in remoteResourceNames(input.g, remoteName) :
           ~IsUninitialized(input.g.nodes[n])

\* C34: updateRemoteResourceNames returns true exactly when it changed
\* something (a remote resource node was added or had a resource swapped in,
\* or a stale remote resource was closed); calling it with an unchanged
\* remote resource set whose nodes are all initialized returns false and
\* changes no node, edge or flag.
C34_AnythingChanged ==
    result.call = "updateRemoteResourceNames" =>
        /\ result.anythingChanged <=> ~GraphUnchanged
        /\ SettledRemote(R1) => ~result.anythingChanged /\ GraphUnchanged


\* the node of name n was added or had a resource swapped in by the call
AddedOrSwappedIn(n) ==
    /\ n \in DOMAIN result.nodes
    /\ result.nodes[n].res = "open"
    /\ n \in DOMAIN input.g.nodes => input.g.nodes[n].res # "open"

\* C35: during remote reconciliation a remote resource name for which no
\* client handle can be obtained is skipped: no node is added or swapped for
\* it and no edge to the remote node is created; the remaining names of
\* that remote are still reconciled.
C35_MissingClientSkipped ==
    result.call = "updateRemoteResourceNames" =>
        /\ \A r \in input.reported \ input.fetch :
               LET n == PrependRemote(r, R1.name)
               IN /\ n \in DOMAIN result.nodes => n \in DOMAIN input.g.nodes
                  /\ ~AddedOrSwappedIn(n)
                  /\ <<n, R1>> \in result.edges => <<n, R1>> \in input.g.edges
        /\ \A r \in input.fetch :
               LET n == PrependRemote(r, R1.name)
               IN /\ n \in DOMAIN result.nodes
                  /\ result.nodes[n].res = "open"
                  /\ result.nodes[n].model = unknownModel
                  /\ <<n, R1>> \in result.edges

\* the remote reports X and sh, a client is given for sh only, and neither
\* was in the graph: sh is grafted and X is not
C35_Witness ==
    /\ result.call = "updateRemoteResourceNames"
    /\ input.reported = {RX, SH} /\ input.fetch = {SH}
    /\ R1X \notin DOMAIN input.g.nodes /\ R1SH \notin DOMAIN input.g.nodes
    /\ R1X \notin DOMAIN result.nodes
    /\ R1SH \in DOMAIN result.nodes /\ <<R1SH, R1>> \in result.edges


\* the remote node is in the graph the call was made on and has a resource
RemoteAvailable(remoteName) ==
    /\ remoteName \in DOMAIN input.g.nodes
    /\ input.g.nodes[remoteName].res = "open"

\* the names the remote reports with a client are in the graph after the call
NamesReconciled(remoteName) ==
    \A r \in input.fetch :
        LET n == PrependRemote(r, remoteName.name)
        IN /\ n \in DOMAIN result.nodes
           /\ result.nodes[n].res = "open"
           /\ <<n, remoteName>> \in result.edges

\* C36: one call of updateRemotesResourceNames reconciles every remote node
\* whose resource is available, whatever earlier remotes of the iteration
\* reported, and returns true if and only if one of them changed something.
C36_EveryRemoteReconciled ==
    result.call = "updateRemotesResourceNames" =>
        /\ \A remoteName \in {R1, R2} : RemoteAvailable(remoteName) => NamesReconciled(remoteName)
        /\ result.anythingChanged <=> ~GraphUnchanged

\* the part that fails without the stale names of C34: a later remote is
\* left out once an earlier one has changed something
C36_LaterRemoteReconciled ==
    (result.call = "updateRemotesResourceNames" /\ RemoteAvailable(R1) /\ RemoteAvailable(R2)) =>
        NamesReconciled(R2)


-----------------------------------------------------------------------------
(* closeResource with its errors.  An error is the sequence of its messages, *)
(* outermost first; a multierr value is the sequence of the errors it        *)
(* combines, and nil is the empty sequence.                                  *)

\* errors.Wrap(err, message)
Wrap(err, message) == <<message>> \o err

\* multierr.Combine of two values of which each is nil or one error
Combine(e1, e2) ==
    (IF e1 = nil THEN <<>> ELSE <<e1>>) \o (IF e2 = nil THEN <<>> ELSE <<e2>>)

errClose == <<"close failed">>

errRemove == <<"remove failed">>

\* no module manager: r.ModuleManager() is nil
NoModMan == [present |-> FALSE, modular |-> {}]

ModMan(modular) == [present |-> TRUE, modular |-> modular]

IsModularResource(modMan, resName) == resName \in modMan.modular

\* closeResource(ctx, r, res): closeErr is what res.Close returns, removeErr
\* what the module manager's RemoveResource returns when it is called.  The
\* value is the calls made, in order, and the error returned.
closeResourceCalls(res, closeErr, modMan, removeErr) ==
    LET allErrs == IF closeErr = nil THEN <<>> ELSE <<closeErr>>
        resName == res
    IN IF modMan.present /\ IsModularResource(modMan, resName)
       THEN [calls |-> <<[op |-> "Close", name |-> res],
                         [op |-> "RemoveResource", name |-> resName]>>,
             err |-> IF removeErr # nil
                     THEN Combine(removeErr,
                                  Wrap(removeErr,
                                       "error removing modular resource for closure"))
                     ELSE allErrs]
       ELSE [calls |-> <<[op |-> "Close", name |-> res]>>, err |-> allErrs]

InitClose ==
    /\ AtRest
    /\ result = NoResult
    /\ lei = NoImage
    /\ \E res \in {NA, NB, NC},
          closeErr \in {nil, errClose},
          removeErr \in {nil, errRemove},
          modMan \in {NoModMan} \cup {ModMan(s) : s \in SUBSET {NA, NB}} :
          input = [op |-> "closeResource", res |-> res, closeErr |-> closeErr,
                   modMan |-> modMan, removeErr |-> removeErr]

QueryCloseResource ==
    /\ input.op = "closeResource"
    /\ result.call = "none"
    /\ LET c == closeResourceCalls(input.res, input.closeErr, input.modMan,
                                   input.removeErr)
       IN result' = [call |-> "closeResource", errs |-> {}, names |-> {},
                     calls |-> c.calls, err |-> c.err]
    /\ QueryFrame

NextClose == QueryCloseResource

SpecClose == InitClose /\ [][NextClose]_vars

\* the error e is one of the errors of allErrs, wrapped or not
ContainsError(allErrs, e) ==
    \E i \in 1..Len(allErrs) :
        /\ Len(allErrs[i]) >= Len(e)
        /\ SubSeq(allErrs[i], Len(allErrs[i]) - Len(e) + 1, Len(allErrs[i])) = e

Called(op) == \E i \in 1..Len(result.calls) : result.calls[i].op = op

\* C37: closeResource always calls the resource's Close, asks the module
\* manager to remove the resource if and only if it is a modular resource,
\* and returns a non-nil error containing the driver's Close error whenever
\* Close failed, also when the module manager's RemoveResource fails too.
C37_CloseResource ==
    result.call = "closeResource" =>
        /\ result.calls[1] = [op |-> "Close", name |-> input.res]
        /\ Called("RemoveResource") <=>
               (input.modMan.present /\ IsModularResource(input.modMan, input.res))
        /\ input.closeErr # nil =>
               (result.err # nil /\ ContainsError(result.err, input.closeErr))

\* the first two parts of C37 and the error when at most one call fails
C37_OneFailure ==
    (result.call = "closeResource" /\ input.closeErr # nil
        /\ (input.removeErr = nil \/ ~Called("RemoveResource"))) =>
        ContainsError(result.err, input.closeErr)


\* C40: ResourceByName gives an exact node match precedence over partial
\* matching: when a node with exactly the requested name exists, the result
\* is that of this node alone (its handle, or NotAvailable), no
\* RemoteResourceClash is returned and no resource of a remote stands in for
\* it, also when remotes expose the same short name and API or the node is
\* unavailable.
C40_ExactMatchFirst ==
    (result.call = "ResourceByName" /\ input.name \in DOMAIN input.g.nodes) =>
        /\ AnswersNode(input.g, input.name)
        /\ result.answer.err # "RemoteResourceClash"
        /\ ResourceErr(input.g.nodes[input.name]) # NoErr =>
               (result.answer.res = NoRes /\ result.answer.err = "NotAvailable")

\* the robot's own X holds no resource, two remotes expose an X that does,
\* and X was asked for
C40_Witness ==
    /\ result.call = "ResourceByName"
    /\ input.name = RX
    /\ RX \in DOMAIN input.g.nodes /\ input.g.nodes[RX].res = NoRes
    /\ {R1X, R2X} \subseteq DOMAIN input.g.nodes
    /\ input.g.nodes[R1X].res = "open" /\ input.g.nodes[R2X].res = "open"
    /\ result.answer.err = "NotAvailable"


\* the names a step marked for update
MarkedInStep == {trace'[i].name : i \in {j \in 1..Len(trace') : trace'[j].op = "SetNeedsUpdate"}}

\* C39: dependents marked for update because an upstream node was built,
\* rebuilt or failed during a pass are reconfigured later in that same pass:
\* they are still to be visited when they are marked, the flag is read when
\* they are visited, and after a pass with no failures no node still needs
\* reconfigure.
C39_MarkedDependentsSamePass ==
    /\ [][\A t \in AllThreads :
            SweepStep(t) => MarkedInStep \subseteq SeqToSet(local'[t].order)]_vars
    /\ [][\A t \in AllThreads :
            (/\ pc[t] = "cc_node" /\ SweepStep(t)
             /\ SweepVisits(Start, SweepName(t)))
            => EventsOn(trace', SweepName(t)) # <<>> \/ pc'[t] = "cc_build"]_vars
    /\ [](hist.done /\ ~hist.failed => NoneNeedsReconfigure)

\* a pass without failures has ended in which B was rebuilt and A, marked
\* by that, was dealt with after it
C39_Witness ==
    /\ hist.done /\ ~hist.failed
    /\ NoneNeedsReconfigure
    /\ <<NA, NB>> \in edges
    /\ \E i \in 1..Len(hist.built), j \in 1..Len(hist.built) :
          i < j /\ hist.built[i] = NB /\ hist.built[j] = NA


\* the step constructed a resource for name and swapped it in
NewlyBuilt(name) ==
    /\ Pos(trace', "Construct", name) > 0
    /\ Pos(trace', "SwapResource", name) > 0

\* C33: whenever a resource is newly built or rebuilt in a pass, every
\* transitive dependent of it in the graph is marked for update and needs
\* reconfigure, but not the resource itself and not the nodes whose names
\* have a remote hop.
C33_RebuildMarksDependents ==
    [][\A t \in AllThreads :
          (SweepStep(t) /\ NewlyBuilt(SweepName(t))) =>
             /\ \A d \in ReachDown(edges, {SweepName(t)}) \ {SweepName(t)} :
                   (HasNode(Graph, d) /\ ~ContainsRemoteNames(d))
                   => /\ Pos(trace', "SetNeedsUpdate", d) > 0
                      /\ NeedsReconfigure(nodes'[d])
             /\ Pos(trace', "SetNeedsUpdate", SweepName(t)) = 0
             /\ ~NeedsReconfigure(nodes'[SweepName(t)])
             /\ \A d \in DOMAIN nodes :
                   ContainsRemoteNames(d) => Pos(trace', "SetNeedsUpdate", d) = 0]_vars

\* C was just built and its dependents B, directly, and A, through B, were
\* marked in the same step
C33_Witness ==
    /\ \E t \in AllThreads : pc[t] = "cc_node"
    /\ {<<NA, NB>>, <<NB, NC>>} \subseteq edges
    /\ Pos(trace, "Construct", NC) = 1
    /\ Pos(trace, "SetNeedsUpdate", NB) > 1
    /\ Pos(trace, "SetNeedsUpdate", NA) > 1
    /\ Pos(trace, "SwapResource", NC) = Len(trace)
    /\ NeedsReconfigure(nodes[NA]) /\ NeedsReconfigure(nodes[NB])
    /\ ~NeedsReconfigure(nodes[NC])


\* the number of events op on name in a trace
Count(tr, op, name) ==
    Cardinality({i \in 1..Len(tr) : tr[i] = [op |-> op, name |-> name]})

\* thread t is about to call processResource for the name at hand
CallsProcessResource(t) ==
    /\ pc[t] = "cc_node" /\ SweepStep(t)
    /\ SweepVisits(Start, SweepName(t))
    /\ nodes[SweepName(t)].config.valid

\* C32: processResource on a built node whose model is unchanged calls
\* Reconfigure on the current handle; on success the same handle is returned
\* and nothing is closed or constructed; on an error that is not MustRebuild
\* nothing is closed or constructed either; only on MustRebuild, or a changed
\* model, the old handle is closed and then one new resource is constructed.
\* On an uninitialized node it only constructs.
C32_ProcessResource ==
    /\ [][\A t \in AllThreads :
            CallsProcessResource(t) =>
               LET n == SweepName(t)
               IN IF IsUninitialized(nodes[n])
                  THEN EventsOn(trace', n) = <<>> /\ pc'[t] = "cc_build"
                  ELSE IF nodes[n].model = nodes[n].config.model
                  THEN /\ Pos(trace', "Reconfigure", n) = 1
                       /\ Count(trace', "Construct", n) = 0
                       /\ Pos(trace', "SwapResource", n) > 0 =>
                             /\ nodes'[n].res = nodes[n].res
                             /\ Count(trace', "Close", n) = 0
                       /\ Pos(trace', "SetLastError", n) > 0 =>
                             Count(trace', "Close", n) = 0
                       /\ Count(trace', "Close", n) > 0 => pc'[t] = "cc_build"
                  ELSE /\ Count(trace', "Reconfigure", n) = 0
                       /\ Count(trace', "Close", n) = 1
                       /\ pc'[t] = "cc_build"]_vars
    /\ [][\A t \in AllThreads :
            (pc[t] = "cc_build" /\ SweepStep(t)) =>
               /\ Count(trace', "Construct", local[t].cur) <= 1
               /\ Count(trace', "Close", local[t].cur) = 0
               /\ Count(trace', "Reconfigure", local[t].cur) = 0
               /\ Pos(trace', "SwapResource", local[t].cur) > 0 =>
                     /\ Pos(trace', "Construct", local[t].cur) = 1
                     /\ nodes'[local[t].cur].res = "open"]_vars

\* C32 for the nodes whose dependencies can be gathered: what remains when
\* the close of line 712 is left aside
C32_DependenciesGathered ==
    [][\A t \in AllThreads :
          (CallsProcessResource(t) /\ getDependenciesOk(Start, SweepName(t))) =>
             LET n == SweepName(t)
             IN IF IsUninitialized(nodes[n])
                THEN EventsOn(trace', n) = <<>> /\ pc'[t] = "cc_build"
                ELSE IF nodes[n].model = nodes[n].config.model
                THEN /\ Pos(trace', "Reconfigure", n) = 1
                     /\ Count(trace', "Construct", n) = 0
                     /\ Pos(trace', "SwapResource", n) > 0 =>
                           /\ nodes'[n].res = nodes[n].res
                           /\ Count(trace', "Close", n) = 0
                     /\ Pos(trace', "SetLastError", n) > 0 =>
                           Count(trace', "Close", n) = 0
                     /\ Count(trace', "Close", n) > 0 => pc'[t] = "cc_build"
                ELSE /\ Count(trace', "Reconfigure", n) = 0
                     /\ Count(trace', "Close", n) = 1
                     /\ pc'[t] = "cc_build"]_vars


\* the step has a dial of a remote among its events
Dials(tr) == \E i \in 1..Len(tr) : tr[i].op = "Dial"

\* the step calls a constructor or Reconfigure of a component or service
Builds(tr) == \E i \in 1..Len(tr) : tr[i].op \in {"Construct", "Reconfigure"}

\* the pass of thread t has reached the end of its sweep
SweepDone(t) == pc[t] = "cc_node" /\ local[t].order = <<>>

\* C31: within one pass every remote node that needs reconfigure is
\* validated, dialled and reconciled before the dependencies are resolved and
\* before any component or service is built, so that a local resource that
\* depends on a resource of a remote attached in this pass is resolved and
\* built in the same pass.
C31_RemotesFirst ==
    /\ [][\A t \in AllThreads :
            RemotesStep(t) =>
               /\ hist.built = <<>> /\ ~Builds(trace')
               /\ \A n \in DOMAIN nodes :
                     (n.api = RemoteAPI /\ NeedsReconfigure(nodes[n]) /\ nodes[n].config.valid)
                     => Pos(trace', "Dial", n) > 0
               /\ \A fetch \in SUBSET remoteSet :
                     CompleteConfigRemotes(t, fetch) =>
                        \A n \in hist'.attached, x \in fetch :
                           /\ PrependRemote(x, n.name) \in DOMAIN nodes'
                           /\ nodes'[PrependRemote(x, n.name)].res = "open"
                           /\ <<PrependRemote(x, n.name), n>> \in edges']_vars
    /\ [][\A t \in AllThreads :
            (InPass(t) /\ Acts(t) /\ pc[t] # "cc_remotes") => ~Dials(trace')]_vars
    /\ [][\A t \in AllThreads :
            (pc[t] = "cc_resolve" /\ Acts(t) /\ R1 \in hist.attached
             /\ NA \in DOMAIN nodes /\ DepX \in nodes[NA].unresolved
             /\ R1X \in DOMAIN nodes)
            => /\ <<NA, R1X>> \in edges'
               /\ nodes'[NA].unresolved = {}
               /\ ~Builds(trace')]_vars
    /\ [](\A t \in AllThreads :
            (/\ SweepDone(t) /\ R1 \in hist.attached
             /\ NA \in DOMAIN nodes /\ DepX \in nodes[NA].config.deps
             /\ R1X \in DOMAIN nodes /\ nodes[R1X].res = "open")
            => /\ <<NA, R1X>> \in edges
               /\ \/ /\ HasResource(nodes[NA]) /\ ResourceErr(nodes[NA]) = NoErr
                     /\ ~NeedsReconfigure(nodes[NA])
                  \/ nodes[NA].lastErr \in OwnFailures)

\* remote r1 was attached in this pass and A, which depends on r1:X, was
\* resolved and built after it in the same pass
C31_Witness ==
    /\ SweepDone("t1")
    /\ R1 \in hist.attached
    /\ <<NA, R1X>> \in edges
    /\ hist.built = <<NA>>
    /\ Live(Graph, NA) /\ Live(Graph, R1X)
====
